---------------------------- MODULE Spec2Model ----------------------------
(***************************************************************************)
(* Pip-Boy 3000 Mk V media converter: the two notebook tabs (Music,        *)
(* Video), their file lists and buttons, the conversion worker threads,    *)
(* the ffmpeg subprocesses, the per-tab log queues drained by the Tk main  *)
(* loop, the video thumbnail preview (debounce timer and build threads)    *)
(* and resolve_tool.                                                       *)
(*                                                                         *)
(* Threads: every Tk handler (button commands, after() callbacks) runs on  *)
(* the main thread and is one atomic action. Worker and preview build      *)
(* threads advance by their own actions, one per blocking point.           *)
(***************************************************************************)
EXTENDS Integers, Sequences, FiniteSets, TLC

(* ----------------------------- bounds --------------------------------- *)

\* Batches a tab may run to their end.
MaxBatches == 1

\* Lines one ffmpeg subprocess writes to stderr before it exits.
MaxOut == 1

\* Thumbnail build threads started in one run.
MaxBuilds == 2

\* Granularity of the model clock, in milliseconds.
TickMs == 125

\* Audio previews (ffplay Popen calls) made in one run.
MaxPlays == 3

\* Lines on the stderr of the subprocess of one FFmpegProcess.run call.
MaxStderr == 3

(* --------------------------- program constants ------------------------ *)

\* video_tab.py: delay_ms = 250 if debounce else 0
PREVIEW_DEBOUNCE_MS == 250

\* music_tab.py: self.after(100, self.start_preview)
RESTART_DELAY_MS == 100

Tabs == {"music", "video"}

None == "None"

\* Paths a file dialog can return for a tab.  "A..." differs from "a..." in
\* case only, "n.txt" has no media extension.
MusicPool == {"a.mp3", "A.MP3", "b.mp3", "n.txt"}
VideoPool == {"a.mp4", "A.MP4", "b.mp4", "n.txt"}

\* The two plain files used where the list contents are not the point.
MusicBasic == {"a.mp3", "b.mp3"}
VideoBasic == {"a.mp4", "b.mp4"}

BasicPool(t) == IF t = "music" THEN MusicBasic ELSE VideoBasic

\* Exit codes of an ffmpeg subprocess (1 stands for every non-zero code).
ExitCodes == {0, 1}

\* Values of the scaling radio buttons.
ScaleModes == {"contain", "cover", "stretch", "custom"}

VARIABLES
    os_nt,            \* os.name == "nt": normcase lower-cases
    tab,              \* the notebook tab the user has in front
    files,            \* [tab] self.files
    known,            \* [tab] self._known_paths
    sel,              \* [tab] file_list.curselection(), 1-based indices
    output_dir,       \* [tab] output_dir_var is non-empty
    btn,              \* [tab] state of the buttons, TRUE = "normal"
    is_running,       \* [tab] self.is_running
    finished_once,    \* MusicTab.convert_finished_once
    progress,         \* [tab] progress bar: maximum and value
    workers,          \* [tab] live conversion worker threads
    procs,            \* running ffmpeg subprocesses
    nbatch,           \* [tab] batches started so far
    exits,            \* history: how each FFmpegProcess.run of a worker returned
    log_q,            \* [tab] queue.Queue of log lines
    log_text,         \* [tab] lines appended to the log panel
    nput,             \* [tab] number of put() calls on the queue
    afterQ,           \* Tk: after(0, ...) callbacks not yet run, in order
    drain_pending,    \* [tab] the after(.., _drain_log) timer is pending
    preview_proc,     \* MusicTab._preview_proc (None or a process)
    scale_mode,       \* VideoTab.scale_mode
    preview_target,   \* VideoTab._preview_target
    preview_after_id, \* VideoTab._preview_after_id (0 = None)
    preview_timers,   \* Tk: pending after(250, go) timers of the video tab
    builds,           \* live _build_preview threads
    nbuild,           \* _build_preview threads started so far
    canvas,           \* what the preview canvas shows
    preview_tmp,      \* the preview PNG: "unset", "absent" or the file drawn in it
    sched,            \* history: the last scheduling (its file, its age, how many
                      \* schedulings less than 250 ms apart led to it: 1 or 2
                      \* for two and more) and the builds started since
    tool_env,         \* resolve_tool: the file system and PATH it runs in
    tool_ret,         \* resolve_tool: what the last call returned
    run_ret,          \* FFmpegProcess.run: the last call and how it ended
    volume_db,        \* MusicTab.volume_db, in hundredths of a dB
    players,          \* running ffplay preview processes
    nplay,            \* Popen(ffplay ...) calls made so far
    restart_pending,  \* pending after(100, self.start_preview) timers: their ages
    poll_pending,     \* pending after(300, self._poll_preview_done) timers
    pressed,          \* history: [tab] per batch, the list and the options when
                      \* Convert was pressed
    cmds              \* history: the ffmpeg commands the workers have built

listVars == <<files, known, sel>>
ctlVars  == <<output_dir, btn>>
convVars == <<is_running, finished_once, progress, workers, procs, nbatch, exits>>
logVars  == <<log_q, log_text, nput>>
tkVars   == <<afterQ, drain_pending>>
prevVars == <<scale_mode, preview_target, preview_after_id, preview_timers,
              builds, nbuild, canvas, preview_tmp, sched>>
toolVars == <<tool_env, tool_ret, run_ret>>
envVars  == <<os_nt, tab>>
playVars == <<volume_db, players, nplay, restart_pending, poll_pending>>
histVars == <<pressed, cmds>>

vars == <<envVars, listVars, ctlVars, convVars, logVars, tkVars,
          preview_proc, prevVars, toolVars, playVars, histVars>>

(* ----------------------------- helpers -------------------------------- *)

Min(S) == CHOOSE x \in S : \A y \in S : x <= y

MinOf(a, b) == IF a <= b THEN a ELSE b

MaxOf(a, b) == IF a >= b THEN a ELSE b

Range(s) == {s[i] : i \in 1..Len(s)}

\* The elements of a set of integers in increasing order.
RECURSIVE Sorted(_)
Sorted(S) == IF S = {} THEN <<>> ELSE <<Min(S)>> \o Sorted(S \ {Min(S)})

Reverse(s) == [i \in 1..Len(s) |-> s[Len(s) + 1 - i]]

\* list.pop(i), 1-based.
RemoveAt(s, i) == [j \in 1..(Len(s) - 1) |-> IF j < i THEN s[j] ELSE s[j + 1]]

Swap(s, i, j) == [s EXCEPT ![i] = s[j], ![j] = s[i]]

\* Sequences over S of length 1..n.
SeqsUpTo(S, n) == UNION {[1..k -> S] : k \in 1..n}

(* ------------------------------ paths --------------------------------- *)

\* str.lower() on the paths of the pools and on their suffixes.
Lower(p) ==
    CASE p = "A.MP3" -> "a.mp3"
      [] p = "A.MP4" -> "a.mp4"
      [] p = ".MP3" -> ".mp3"
      [] p = ".MP4" -> ".mp4"
      [] OTHER -> p

\* Path.suffix of the paths of the pools.
Suffix(p) ==
    CASE p \in {"a.mp3", "b.mp3"} -> ".mp3"
      [] p = "A.MP3" -> ".MP3"
      [] p \in {"a.mp4", "b.mp4"} -> ".mp4"
      [] p = "A.MP4" -> ".MP4"
      [] OTHER -> ".txt"

\* os.path.normcase(os.path.abspath(str(p))): the dialog returns absolute
\* paths, which abspath keeps; normcase lower-cases on Windows only.
normalize(p) == IF os_nt THEN Lower(p) ELSE p

is_audio(p) == Lower(Suffix(p)) \in {".mp3"}

is_video(p) == Lower(Suffix(p)) \in {".mp4"}

(* ------------------------------ log queue ----------------------------- *)

\* A log line: the queue it was put on, its number among the puts on that
\* queue, what it says, and the batch, the file's number in the batch and the
\* file it is about (0, 0 and None when it is about none).
Line(t, n, kind, b, k, f) ==
    [q |-> t, n |-> n, kind |-> kind, batch |-> b, k |-> k, src |-> f]

Item(kind, b, k, f) == [kind |-> kind, batch |-> b, k |-> k, src |-> f]

\* log_q.put(...) for each of items, on the queue of tab t, given the queues.
PutAll(q, np, t, items) ==
    [q EXCEPT ![t] = @ \o [i \in 1..Len(items) |->
        Line(t, np[t] + i, items[i].kind, items[i].batch, items[i].k, items[i].src)]]

Counted(np, t, items) == [np EXCEPT ![t] = @ + Len(items)]

\* The lines this step puts on queue t.
Puts(t, items) ==
    /\ log_q' = PutAll(log_q, nput, t, items)
    /\ nput' = Counted(nput, t, items)


(* --------------------------- update_controls -------------------------- *)

\* MusicTab.update_controls: the button states it configures.
MusicButtons(fl, s, od, run, pp) ==
    LET count == Len(fl)
        selected == s # {}
        move_ok == count > 1 /\ selected /\ ~run
    IN  [up |-> move_ok,
         down |-> move_ok,
         remove |-> selected /\ ~run,
         clear |-> count >= 1 /\ ~run,
         convert |-> count >= 1 /\ od /\ ~run,
         play |-> count >= 1 /\ selected /\ ~run /\ pp = None,
         stop |-> pp # None]

\* MusicTab.update_controls: "if count > 0 and not selected: selection_set(0)".
MusicReselect(fl, s) == IF Len(fl) > 0 /\ s = {} THEN {1} ELSE s

\* VideoTab.update_controls: the button states it configures (the video tab
\* has no Play and Stop buttons: both fields stay FALSE).
VideoButtons(fl, s, od, run) ==
    LET count == Len(fl)
        selected == s # {}
        move_ok == count > 1 /\ selected /\ ~run
    IN  [up |-> move_ok,
         down |-> move_ok,
         remove |-> selected /\ ~run,
         clear |-> count >= 1 /\ ~run,
         convert |-> count >= 1 /\ od /\ ~run,
         play |-> FALSE,
         stop |-> FALSE]

NoButtons ==
    [up |-> FALSE, down |-> FALSE, remove |-> FALSE, clear |-> FALSE,
     convert |-> FALSE, play |-> FALSE, stop |-> FALSE]

(* ------------------------- video preview: timer ----------------------- *)

Text(msg) == [kind |-> "text", v |-> msg]

Image(f) == [kind |-> "image", v |-> f]

\* Variant: a scheduling that leaves the pending timer alone.
CancelNothing(timers, id) == timers

\* self.after_cancel(self._preview_after_id): the pending timers left.
CancelPending(timers, id) == {tm \in timers : tm.id # id}

\* The id Tk gives the next timer.
NewTimerId(timers) ==
    Min({i \in 1..(Cardinality(timers) + 1) : \A tm \in timers : tm.id # i})

\* VideoTab._schedule_preview_update, called with the scaling mode, the
\* list and the selection its caller leaves.
SchedulePreviewUpdate(mode, fl, s, debounce) ==
    IF mode = "custom"
    THEN UNCHANGED <<preview_target, preview_after_id, preview_timers, canvas, sched>>
    ELSE IF s = {}
    THEN /\ canvas' = Text("No preview")
         /\ UNCHANGED <<preview_target, preview_after_id, preview_timers, sched>>
    ELSE LET target == fl[Min(s)]
             delay == IF debounce THEN PREVIEW_DEBOUNCE_MS ELSE 0
             kept == IF preview_after_id # 0
                     THEN CancelPending(preview_timers, preview_after_id)
                     ELSE preview_timers
             id == NewTimerId(kept)
         IN  /\ preview_target' = target
             /\ preview_timers' =
                    kept \cup {[id |-> id, target |-> target, age |-> 0, delay |-> delay]}
             /\ preview_after_id' = id
             /\ sched' = [file |-> target, age |-> 0, builds |-> <<>>,
                          burst |-> IF sched.age < PREVIEW_DEBOUNCE_MS
                                    THEN MinOf(sched.burst + 1, 2) ELSE 1]
             /\ UNCHANGED canvas

(* ------------------------------- options ------------------------------ *)

\* The values the gain slider is moved to, in hundredths of a dB: 0 dB,
\* 0.04 dB and 6 dB.
Gains == {0, 4, 600}

Abs(x) == IF x < 0 THEN -x ELSE x

\* f"{db:.1f}": db to one decimal, in hundredths.
Tenths(db) == ((db + 5) \div 10) * 10

\* MusicTab._af: no filter below 0.05 dB, else "-af volume=<db>dB".
MusicAf(db) == IF Abs(db) < 5 THEN <<>> ELSE <<"-af", Tenths(db)>>

\* VideoTab._vf_core: the scaling filter of a scaling mode.
vf_core(mode) ==
    CASE mode = "custom" -> "scale=cw:ch"
      [] mode = "stretch" -> "scale=340:210"
      [] mode = "cover" -> "scale=max,crop=340:210"
      [] OTHER -> "scale=min,pad=340:210"

\* VideoTab._vf_convert.
vf_convert(mode) == <<vf_core(mode), "fps=12", "format=pal8">>

(* ---------------------------- audio preview --------------------------- *)

\* The Popen object of the n-th ffplay process.
Pid(n) == ToString(n)

\* The n-th ffplay process: the file it plays and its gain filter.
Player(n, src, db) == [pid |-> Pid(n), src |-> src, af |-> MusicAf(db)]

\* proc.poll() is None: the process pp has not exited.
Running(pl, pp) == \E p \in pl : p.pid = pp

\* stop_preview: proc.terminate() / send_signal(SIGTERM), or proc.kill() when
\* that raises: the processes left running.  (The signal raises only for a
\* process that has exited already.)
Terminated(pl, pp) == {p \in pl : p.pid # pp}

\* MusicTab._selected_path.
SelectedPath(fl, s) ==
    IF s = {} THEN None
    ELSE IF Min(s) \in 1..Len(fl) THEN fl[Min(s)] ELSE None

(* ------------------------------ file lists ---------------------------- *)

\* mainloop() has run _validate_tools: Tk runs the after(0, ...) callback of
\* __init__ before the window takes its first user event.
Started == \A i \in 1..Len(afterQ) : afterQ[i].cb # "validate"

\* The user can act on the widgets of tab t: it is the tab in front.
UserAt(t) == Started /\ tab = t

\* add_files: "if not is_audio(p)" / "if p.suffix.lower() not in VIDEO_EXT_SET".
Accepts(t, p) == IF t = "music" THEN is_audio(p) ELSE is_video(p)

\* The loop of add_files: the paths kept, and _known_paths after it.
RECURSIVE AddLoop(_, _, _, _)
AddLoop(paths, kn, picked, t) ==
    IF paths = <<>> THEN [known |-> kn, picked |-> picked]
    ELSE LET p == Head(paths)
             key == normalize(p)
         IN  IF ~Accepts(t, p) \/ key \in kn
             THEN AddLoop(Tail(paths), kn, picked, t)
             ELSE AddLoop(Tail(paths), kn \cup {key}, Append(picked, p), t)

\* Variant: a remove_selected that pops the files and keeps their keys.
RECURSIVE RemoveLoopKeepsKeys(_, _, _)
RemoveLoopKeepsKeys(order, store, kn) ==
    IF order = <<>> THEN [files |-> store, known |-> kn]
    ELSE LET idx == Head(order)
         IN  IF idx \in 1..Len(store)
             THEN RemoveLoopKeepsKeys(Tail(order), RemoveAt(store, idx), kn)
             ELSE RemoveLoopKeepsKeys(Tail(order), store, kn)

\* The loop of remove_selected: pops the selected indices from the highest
\* down and discards their keys.
RECURSIVE RemoveLoop(_, _, _)
RemoveLoop(order, store, kn) ==
    IF order = <<>> THEN [files |-> store, known |-> kn]
    ELSE LET idx == Head(order)
         IN  IF idx \in 1..Len(store)
             THEN RemoveLoop(Tail(order), RemoveAt(store, idx),
                             kn \ {normalize(store[idx])})
             ELSE RemoveLoop(Tail(order), store, kn)

\* The loop of move_selected: swaps each index of order with its neighbour.
RECURSIVE MoveLoop(_, _, _)
MoveLoop(order, store, delta) ==
    IF order = <<>> THEN store
    ELSE LET i == Head(order)
             j == i + delta
         IN  IF j \in 1..Len(store)
             THEN MoveLoop(Tail(order), Swap(store, i, j), delta)
             ELSE MoveLoop(Tail(order), store, delta)

\* move_selected: sel if delta < 0 else reversed(sel).
MoveOrder(s, delta) == IF delta < 0 THEN Sorted(s) ELSE Reverse(Sorted(s))

\* move_selected: the indices selection_set is called with after the move.
MovedSel(s, delta, n) == {MinOf(MaxOf(1, i + delta), n) : i \in s}

\* _refresh_list: the listbox is rebuilt and its first row selected.
RefreshSel(fl) == IF Len(fl) > 0 THEN {1} ELSE {}

\* MusicTab: update_controls() run on the state a handler leaves.
MusicUpdateControls(fl, s, od, run, pp) ==
    /\ btn' = [btn EXCEPT !["music"] = MusicButtons(fl, s, od, run, pp)]
    /\ sel' = [sel EXCEPT !["music"] = MusicReselect(fl, s)]

\* MusicTab.add_files, the dialog returning paths (empty: cancelled).
MusicAddFiles(paths) ==
    /\ UserAt("music")
    /\ LET r == AddLoop(paths, known["music"], <<>>, "music")
           store == files["music"] \o r.picked
       IN  /\ known' = [known EXCEPT !["music"] = r.known]
           /\ IF r.picked = <<>>
              THEN /\ UNCHANGED files
                   /\ MusicUpdateControls(files["music"], sel["music"], output_dir["music"],
                                          is_running["music"], preview_proc)
              ELSE /\ files' = [files EXCEPT !["music"] = store]
                   /\ MusicUpdateControls(store, RefreshSel(store), output_dir["music"],
                                          is_running["music"], preview_proc)
           /\ UNCHANGED <<envVars, output_dir, convVars, logVars, tkVars, preview_proc,
                          prevVars, toolVars, playVars, histVars>>

\* MusicTab.remove_selected (the Remove button).
MusicRemoveSelected ==
    /\ UserAt("music")
    /\ btn["music"].remove
    /\ sel["music"] # {}
    /\ LET s == sel["music"]
           r == RemoveLoop(Reverse(Sorted(s)), files["music"], known["music"])
           target == MaxOf(0, MinOf(Min(s) - 2, Len(r.files) - 1)) + 1
           s2 == IF r.files # <<>> THEN {target} ELSE {}
       IN  /\ files' = [files EXCEPT !["music"] = r.files]
           /\ known' = [known EXCEPT !["music"] = r.known]
           /\ MusicUpdateControls(r.files, s2, output_dir["music"],
                                  is_running["music"], preview_proc)
    /\ UNCHANGED <<envVars, output_dir, convVars, logVars, tkVars, preview_proc,
                   prevVars, toolVars, playVars, histVars>>

\* MusicTab.clear_list (the Clear button).
MusicClearList ==
    /\ UserAt("music")
    /\ btn["music"].clear
    /\ files' = [files EXCEPT !["music"] = <<>>]
    /\ known' = [known EXCEPT !["music"] = {}]
    /\ MusicUpdateControls(<<>>, {}, output_dir["music"], is_running["music"],
                           preview_proc)
    /\ UNCHANGED <<envVars, output_dir, convVars, logVars, tkVars, preview_proc,
                   prevVars, toolVars, playVars, histVars>>

\* MusicTab.move_selected (the Up and Down buttons).
MusicMoveSelected(delta) ==
    /\ UserAt("music")
    /\ IF delta < 0 THEN btn["music"].up ELSE btn["music"].down
    /\ sel["music"] # {}
    /\ LET s == sel["music"]
           store == MoveLoop(MoveOrder(s, delta), files["music"], delta)
           s2 == RefreshSel(store) \cup MovedSel(s, delta, Len(store))
       IN  /\ files' = [files EXCEPT !["music"] = store]
           /\ MusicUpdateControls(store, s2, output_dir["music"],
                                  is_running["music"], preview_proc)
    /\ UNCHANGED <<envVars, known, output_dir, convVars, logVars, tkVars,
                   preview_proc, prevVars, toolVars, playVars, histVars>>

\* MusicTab.stop_preview: the process is signalled and forgotten.
StopPreviewKeeps(pp) == pp

StopPreview(pp) == None

\* MusicTab._on_list_select, the user having changed the selection to s.
MusicListSelect(s) ==
    /\ UserAt("music")
    /\ s \subseteq 1..Len(files["music"])
    /\ s # sel["music"]
    /\ LET pp == IF preview_proc # None THEN StopPreview(preview_proc)
                 ELSE preview_proc
           \* stop_preview ends with update_controls(), which may reselect
           s1 == IF preview_proc # None THEN MusicReselect(files["music"], s) ELSE s
       IN  /\ preview_proc' = pp
           /\ players' = Terminated(players, preview_proc)
           /\ MusicUpdateControls(files["music"], s1, output_dir["music"],
                                  is_running["music"], pp)
    /\ UNCHANGED <<envVars, files, known, output_dir, convVars, logVars, tkVars,
                   prevVars, toolVars, volume_db, nplay, restart_pending,
                   poll_pending, histVars>>

\* The output folder entry is edited or a folder is picked (MusicTab
\* .pick_folder): the write trace runs update_controls().
MusicSetOutput(v) ==
    /\ UserAt("music")
    /\ output_dir' = [output_dir EXCEPT !["music"] = v]
    /\ MusicUpdateControls(files["music"], sel["music"], v, is_running["music"],
                           preview_proc)
    /\ UNCHANGED <<envVars, files, known, convVars, logVars, tkVars, preview_proc,
                   prevVars, toolVars, playVars, histVars>>

\* VideoTab._refresh_list on the list a handler leaves, and the selection
\* calls that follow it in the handler (extra).
VideoRefreshList(fl, extra) ==
    /\ btn' = [btn EXCEPT !["video"] =
                  VideoButtons(fl, RefreshSel(fl), output_dir["video"], is_running["video"])]
    /\ SchedulePreviewUpdate(scale_mode, fl, RefreshSel(fl), TRUE)
    /\ sel' = [sel EXCEPT !["video"] = RefreshSel(fl) \cup extra]

\* VideoTab.add_files, the dialog returning paths (non-empty).
VideoAddFiles(paths) ==
    /\ UserAt("video")
    /\ LET r == AddLoop(paths, known["video"], <<>>, "video")
           store == files["video"] \o r.picked
       IN  /\ known' = [known EXCEPT !["video"] = r.known]
           /\ files' = [files EXCEPT !["video"] = store]
           /\ VideoRefreshList(store, {})
           /\ UNCHANGED <<envVars, output_dir, convVars, logVars, tkVars, preview_proc,
                          scale_mode, builds, nbuild, preview_tmp, toolVars, playVars, histVars>>

\* VideoTab.remove_selected (the Remove button).
VideoRemoveSelected ==
    /\ UserAt("video")
    /\ btn["video"].remove
    /\ sel["video"] # {}
    /\ LET r == RemoveLoop(Reverse(Sorted(sel["video"])), files["video"], known["video"])
       IN  /\ files' = [files EXCEPT !["video"] = r.files]
           /\ known' = [known EXCEPT !["video"] = r.known]
           /\ VideoRefreshList(r.files, {})
    /\ UNCHANGED <<envVars, output_dir, convVars, logVars, tkVars, preview_proc,
                   scale_mode, builds, nbuild, preview_tmp, toolVars, playVars, histVars>>

\* VideoTab.clear_list (the Clear button).
VideoClearList ==
    /\ UserAt("video")
    /\ btn["video"].clear
    /\ files' = [files EXCEPT !["video"] = <<>>]
    /\ known' = [known EXCEPT !["video"] = {}]
    /\ VideoRefreshList(<<>>, {})
    /\ UNCHANGED <<envVars, output_dir, convVars, logVars, tkVars, preview_proc,
                   scale_mode, builds, nbuild, preview_tmp, toolVars, playVars, histVars>>

\* VideoTab.move_selected (the Up and Down buttons).
VideoMoveSelected(delta) ==
    /\ UserAt("video")
    /\ IF delta < 0 THEN btn["video"].up ELSE btn["video"].down
    /\ sel["video"] # {}
    /\ LET s == sel["video"]
           store == MoveLoop(MoveOrder(s, delta), files["video"], delta)
       IN  /\ files' = [files EXCEPT !["video"] = store]
           /\ VideoRefreshList(store, MovedSel(s, delta, Len(store)))
    /\ UNCHANGED <<envVars, known, output_dir, convVars, logVars, tkVars,
                   preview_proc, scale_mode, builds, nbuild, preview_tmp, toolVars,
                   playVars, histVars>>

\* VideoTab._on_list_select, the user having changed the selection to s.
VideoListSelect(s) ==
    /\ UserAt("video")
    /\ s \subseteq 1..Len(files["video"])
    /\ s # sel["video"]
    /\ sel' = [sel EXCEPT !["video"] = s]
    /\ btn' = [btn EXCEPT !["video"] =
                  VideoButtons(files["video"], s, output_dir["video"], is_running["video"])]
    /\ SchedulePreviewUpdate(scale_mode, files["video"], s, TRUE)
    /\ UNCHANGED <<envVars, files, known, output_dir, convVars, logVars, tkVars,
                   preview_proc, scale_mode, builds, nbuild, preview_tmp, toolVars,
                   playVars, histVars>>

\* The output folder entry is edited or a folder is picked (VideoTab
\* .pick_folder): the write trace runs update_controls().
VideoSetOutput(v) ==
    /\ UserAt("video")
    /\ output_dir' = [output_dir EXCEPT !["video"] = v]
    /\ btn' = [btn EXCEPT !["video"] =
                  VideoButtons(files["video"], sel["video"], v, is_running["video"])]
    /\ UNCHANGED <<envVars, listVars, convVars, logVars, tkVars, preview_proc,
                   prevVars, toolVars, playVars, histVars>>

\* VideoTab.__init__._on_mode_change, the user having clicked the radio
\* button of mode m.
VideoModeChange(m) ==
    /\ UserAt("video")
    /\ scale_mode' = m
    /\ IF m = "custom"
       THEN UNCHANGED <<preview_target, preview_after_id, preview_timers, canvas, sched>>
       ELSE SchedulePreviewUpdate(m, files["video"], sel["video"], TRUE)
    /\ UNCHANGED <<envVars, listVars, ctlVars, convVars, logVars, tkVars,
                   preview_proc, builds, nbuild, preview_tmp, toolVars, playVars, histVars>>

\* The user clicks the tab t of the ttk.Notebook: its frame comes to the
\* front (no handler is bound to the change of tab).
SelectTab(t) ==
    /\ Started
    /\ t # tab
    /\ tab' = t
    /\ UNCHANGED <<os_nt, listVars, ctlVars, convVars, logVars, tkVars, preview_proc,
                   prevVars, toolVars, playVars, histVars>>

(* ------------------------------ conversion ---------------------------- *)

\* Variant: both tabs constructed with the same queue.
SharedQueue(t) == "music"

\* PipMediaApp._wire_tabs: the queue a tab is constructed with (log_q=...).
TabQueue(t) == t

\* An after(0, ...) callback: what it calls and with what.
Callback(cb, t, b, ok, n, msg) ==
    [cb |-> cb, tab |-> t, batch |-> b, ok |-> ok, n |-> n, msg |-> msg]

\* A conversion worker thread at the top of its loop.  Music: files is the
\* list(self.files) copy it was given; video: the worker iterates self.files
\* itself and files stays empty.  i counts the files the loop has taken.
\* Music: af is the "af = self._af()" the worker closes over; video: the
\* worker calls _vf_convert() for each file and af stays empty.
NewWorker(t, b, fl, af) ==
    [batch |-> b, files |-> fl, i |-> 0, pc |-> "next", src |-> None, nout |-> 0,
     af |-> af]

\* What a batch is started with: the list and the options at that moment.
Pressed(fl, opt) == [files |-> fl, opt |-> opt]

\* The command a worker builds for the k-th file it takes: the source and
\* the filter arguments ("*af" / "-vf", vf).
Cmd(t, b, k, f, opt) == [tab |-> t, batch |-> b, k |-> k, src |-> f, opt |-> opt]

\* The filter arguments of the command the worker wk of tab t builds now.
WorkerOpt(t, wk) == IF t = "music" THEN wk.af ELSE vf_convert(scale_mode)

\* The ffmpeg subprocess of the k-th file of a batch.
ConvProc(t, b, k, f) ==
    [kind |-> "convert", tab |-> t, batch |-> b, k |-> k, src |-> f]

\* Variant: start_convert_all without its "if self.is_running: return".
NeverRunning(t) == FALSE

\* start_convert_all: "if self.is_running: return".
AlreadyRunning(t) == is_running[t]

\* The batches of tab t that have ended.
BatchesEnded(t) == nbatch[t] - (IF is_running[t] THEN 1 ELSE 0)

\* MusicTab.start_convert_all and _convert_files (the Convert button).
MusicStartConvertAll ==
    LET t == "music"
        q == TabQueue(t)
        pp == IF preview_proc # None THEN StopPreview(preview_proc) ELSE preview_proc
        s1 == IF preview_proc # None THEN MusicReselect(files[t], sel[t]) ELSE sel[t]
        b == nbatch[t] + 1
    IN
    /\ UserAt(t)
    /\ btn[t].convert
    /\ IF AlreadyRunning(t)
       THEN UNCHANGED <<btn, sel, preview_proc, players, pressed, convVars, logVars>>
       ELSE IF files[t] = <<>>
       THEN /\ Puts(q, <<Item("error", 0, 0, None)>>)
            /\ UNCHANGED <<btn, sel, preview_proc, players, pressed, convVars, log_text>>
       ELSE IF ~output_dir[t]
       THEN \* stop_preview() has run, _convert_files returns early
            /\ preview_proc' = pp
            /\ players' = Terminated(players, preview_proc)
            /\ UNCHANGED pressed
            /\ IF preview_proc # None
               THEN MusicUpdateControls(files[t], sel[t], output_dir[t], FALSE, pp)
               ELSE UNCHANGED <<btn, sel>>
            /\ Puts(q, <<Item("error", 0, 0, None)>>)
            /\ UNCHANGED <<convVars, log_text>>
       ELSE /\ BatchesEnded(t) < MaxBatches
            /\ preview_proc' = pp
            /\ players' = Terminated(players, preview_proc)
            /\ is_running' = [is_running EXCEPT ![t] = TRUE]
            /\ finished_once' = FALSE
            /\ MusicUpdateControls(files[t], s1, output_dir[t], TRUE, pp)
            /\ progress' = [progress EXCEPT ![t] = [max |-> Len(files[t]), value |-> 0]]
            /\ workers' = [workers EXCEPT ![t] =
                   Append(@, NewWorker(t, b, files[t], MusicAf(volume_db)))]
            /\ nbatch' = [nbatch EXCEPT ![t] = b]
            /\ pressed' = [pressed EXCEPT ![t] =
                   Append(@, Pressed(files[t], MusicAf(volume_db)))]
            /\ UNCHANGED <<procs, exits, logVars>>
    /\ UNCHANGED <<envVars, files, known, output_dir, tkVars, prevVars, toolVars,
                   volume_db, nplay, restart_pending, poll_pending, cmds>>

\* VideoTab.start_convert_all (the Convert button).
VideoStartConvertAll ==
    LET t == "video"
        q == TabQueue(t)
        b == nbatch[t] + 1
    IN
    /\ UserAt(t)
    /\ btn[t].convert
    /\ IF AlreadyRunning(t)
       THEN UNCHANGED <<convVars, logVars, pressed>>
       ELSE IF files[t] = <<>> \/ ~output_dir[t]
       THEN /\ Puts(q, <<Item("error", 0, 0, None)>>)
            /\ UNCHANGED <<convVars, log_text, pressed>>
       ELSE /\ BatchesEnded(t) < MaxBatches
            /\ is_running' = [is_running EXCEPT ![t] = TRUE]
            /\ progress' = [progress EXCEPT ![t] = [max |-> Len(files[t]), value |-> 0]]
            /\ workers' = [workers EXCEPT ![t] = Append(@, NewWorker(t, b, <<>>, <<>>))]
            /\ nbatch' = [nbatch EXCEPT ![t] = b]
            /\ pressed' = [pressed EXCEPT ![t] =
                   Append(@, Pressed(files[t], vf_convert(scale_mode)))]
            /\ UNCHANGED <<finished_once, procs, exits, logVars>>
    /\ UNCHANGED <<envVars, listVars, ctlVars, tkVars, preview_proc, prevVars, toolVars,
                   playVars, cmds>>

\* The list the worker's for loop iterates: music the copy, video self.files.
WorkerFiles(t, wk) == IF t = "music" THEN wk.files ELSE files[t]

\* workers[t] without its w-th thread (the thread has returned).
Without(t, w) == [workers EXCEPT ![t] = RemoveAt(@, w)]

\* FFmpegProcess.run has returned code to the worker wk of tab t.
Exit(t, wk, code) == [tab |-> t, batch |-> wk.batch, k |-> wk.i, code |-> code]

\* Variant: a worker that breaks out of its loop and returns without
\* scheduling end.
FailFileNoEnd(t, w, before) ==
    LET wk == workers[t][w]
    IN  /\ Puts(TabQueue(t), before \o <<Item("failed", wk.batch, wk.i, wk.src)>>)
        /\ afterQ' = Append(afterQ, Callback("progress", t, wk.batch, TRUE, wk.i, ""))
        /\ workers' = Without(t, w)
        /\ exits' = exits \cup {Exit(t, wk, 1)}

\* The worker leaves its loop on a failure: idx is reported, the failure is
\* logged after the lines in before, end(False) is scheduled.
FailFile(t, w, before) ==
    LET wk == workers[t][w]
    IN  /\ Puts(TabQueue(t), before \o <<Item("failed", wk.batch, wk.i, wk.src)>>)
        /\ afterQ' = afterQ \o <<Callback("progress", t, wk.batch, TRUE, wk.i, ""),
                                 Callback("end", t, wk.batch, FALSE, 0, "")>>
        /\ workers' = Without(t, w)
        /\ exits' = exits \cup {Exit(t, wk, 1)}

\* worker: the for statement takes the next file and logs "[*] Converting",
\* or finds none left and schedules end(ok) with ok still True.
WorkerNext(t, w) ==
    /\ w \in 1..Len(workers[t])
    /\ workers[t][w].pc = "next"
    /\ LET wk == workers[t][w]
           fl == WorkerFiles(t, wk)
       IN  IF wk.i < Len(fl)
           THEN /\ Puts(TabQueue(t), <<Item("converting", wk.batch, wk.i + 1, fl[wk.i + 1])>>)
                /\ workers' = [workers EXCEPT ![t][w] =
                       [wk EXCEPT !.i = wk.i + 1, !.src = fl[wk.i + 1], !.pc = "popen",
                                  !.nout = 0]]
                /\ UNCHANGED afterQ
           ELSE /\ afterQ' = Append(afterQ, Callback("end", t, wk.batch, TRUE, 0, ""))
                /\ workers' = Without(t, w)
                /\ UNCHANGED <<log_q, nput>>
    /\ UNCHANGED <<envVars, listVars, ctlVars, is_running, finished_once, progress,
                   procs, nbatch, exits, log_text, drain_pending, preview_proc,
                   prevVars, toolVars, playVars, histVars>>

\* Variant: a run() that starts the process and returns at once, without
\* reading its output and waiting for it.
WorkerPopenDetached(t, w) ==
    /\ w \in 1..Len(workers[t])
    /\ workers[t][w].pc = "popen"
    /\ LET wk == workers[t][w]
       IN  /\ procs' = procs \cup {ConvProc(t, wk.batch, wk.i, wk.src)}
           /\ workers' = [workers EXCEPT ![t][w] = [wk EXCEPT !.pc = "next"]]
           /\ cmds' = cmds \cup {Cmd(t, wk.batch, wk.i, wk.src, WorkerOpt(t, wk))}
    /\ UNCHANGED <<envVars, listVars, ctlVars, is_running, finished_once, progress,
                   nbatch, exits, logVars, tkVars, preview_proc, prevVars, toolVars,
                   playVars, pressed>>

\* FFmpegProcess.run: subprocess.Popen starts the process.  Video: the
\* command is built first (_vf_convert), and in custom mode _get_custom_size
\* writes the size variables, whose write trace runs update_controls().
WorkerPopen(t, w) ==
    /\ w \in 1..Len(workers[t])
    /\ workers[t][w].pc = "popen"
    /\ LET wk == workers[t][w]
       IN  /\ procs' = procs \cup {ConvProc(t, wk.batch, wk.i, wk.src)}
           /\ workers' = [workers EXCEPT ![t][w] = [wk EXCEPT !.pc = "read"]]
           /\ cmds' = cmds \cup {Cmd(t, wk.batch, wk.i, wk.src, WorkerOpt(t, wk))}
    /\ IF t = "video" /\ scale_mode = "custom"
       THEN btn' = [btn EXCEPT ![t] =
                VideoButtons(files[t], sel[t], output_dir[t], is_running[t])]
       ELSE UNCHANGED btn
    /\ UNCHANGED <<envVars, listVars, output_dir, is_running, finished_once, progress,
                   nbatch, exits, logVars, tkVars, preview_proc, prevVars, toolVars,
                   playVars, pressed>>

\* FFmpegProcess.run: subprocess.Popen raises (ffmpeg missing, ...): the
\* exception is logged and run returns 1.
WorkerPopenFails(t, w) ==
    /\ w \in 1..Len(workers[t])
    /\ workers[t][w].pc = "popen"
    /\ FailFile(t, w, <<Item("exception", workers[t][w].batch, workers[t][w].i, workers[t][w].src)>>)
    /\ cmds' = cmds \cup {Cmd(t, workers[t][w].batch, workers[t][w].i, workers[t][w].src,
                               WorkerOpt(t, workers[t][w]))}
    /\ IF t = "video" /\ scale_mode = "custom"
       THEN btn' = [btn EXCEPT ![t] =
                VideoButtons(files[t], sel[t], output_dir[t], is_running[t])]
       ELSE UNCHANGED btn
    /\ UNCHANGED <<envVars, listVars, output_dir, is_running, finished_once, progress,
                   procs, nbatch, log_text, drain_pending, preview_proc, prevVars,
                   toolVars, playVars, pressed>>

\* FFmpegProcess.run: "for line in proc.stderr: self.log_q.put(line.strip())",
\* one line.
WorkerRead(t, w) ==
    /\ w \in 1..Len(workers[t])
    /\ workers[t][w].pc = "read"
    /\ workers[t][w].nout < MaxOut
    /\ LET wk == workers[t][w]
       IN  /\ Puts(TabQueue(t), <<Item("out", wk.batch, wk.i, wk.src)>>)
           /\ workers' = [workers EXCEPT ![t][w] = [wk EXCEPT !.nout = wk.nout + 1]]
    /\ UNCHANGED <<envVars, listVars, ctlVars, is_running, finished_once, progress,
                   procs, nbatch, exits, log_text, tkVars, preview_proc, prevVars,
                   toolVars, playVars, histVars>>

\* FFmpegProcess.run: reading proc.stderr raises (a line that does not
\* decode): the exception is logged and run returns 1; the process was not
\* waited for and is still running.
WorkerReadFails(t, w) ==
    /\ w \in 1..Len(workers[t])
    /\ workers[t][w].pc = "read"
    /\ FailFile(t, w, <<Item("exception", workers[t][w].batch, workers[t][w].i, workers[t][w].src)>>)
    /\ UNCHANGED <<envVars, listVars, ctlVars, is_running, finished_once, progress,
                   procs, nbatch, log_text, drain_pending, preview_proc, prevVars,
                   toolVars, playVars, histVars>>

\* Variant: a worker that goes on to the next file whatever the exit code.
StopsNever(code) == FALSE

\* worker: "if code != 0: ... break".
StopsBatch(code) == code # 0

\* FFmpegProcess.run: stderr is at its end and proc.wait() returns code; the
\* worker reports idx and goes on or stops.
WorkerWait(t, w, code) ==
    /\ w \in 1..Len(workers[t])
    /\ workers[t][w].pc = "read"
    /\ LET wk == workers[t][w]
       IN  /\ procs' = procs \ {ConvProc(t, wk.batch, wk.i, wk.src)}
           /\ IF StopsBatch(code)
              THEN FailFile(t, w, <<>>)
              ELSE /\ afterQ' = Append(afterQ,
                                       Callback("progress", t, wk.batch, TRUE, wk.i, ""))
                   /\ workers' = [workers EXCEPT ![t][w] = [wk EXCEPT !.pc = "next"]]
                   /\ exits' = exits \cup {Exit(t, wk, code)}
                   /\ UNCHANGED <<log_q, nput>>
    /\ UNCHANGED <<envVars, listVars, ctlVars, is_running, finished_once, progress,
                   nbatch, log_text, drain_pending, preview_proc, prevVars, toolVars,
                   playVars, histVars>>

\* The process p has a thread reading its stderr and waiting for it.
HasReader(p) ==
    \E w \in 1..Len(workers[p.tab]) :
        /\ workers[p.tab][w].pc = "read"
        /\ p = ConvProc(p.tab, workers[p.tab][w].batch, workers[p.tab][w].i,
                        workers[p.tab][w].src)

\* An ffmpeg process that run() stopped reading exits by itself.
ProcExit(p) ==
    /\ p \in procs
    /\ p.kind = "convert"
    /\ ~HasReader(p)
    /\ procs' = procs \ {p}
    /\ UNCHANGED <<envVars, listVars, ctlVars, is_running, finished_once, progress,
                   workers, nbatch, exits, logVars, tkVars, preview_proc, prevVars,
                   toolVars, playVars, histVars>>

(* ----------------------- audio preview: handlers --------------------- *)

\* Variant: a start_preview without its "already playing" return.
NeverPlaying == FALSE

\* start_preview: "if self._preview_proc is not None: return".
AlreadyPlaying == preview_proc # None

\* MusicTab.start_preview.  started: subprocess.Popen(ffplay ...) succeeds.
StartPreview(started) ==
    LET t == "music"
        src == SelectedPath(files[t], sel[t])
    IN  IF AlreadyPlaying
        THEN UNCHANGED <<preview_proc, players, nplay, poll_pending, btn, sel, log_q, nput>>
        ELSE IF src = None
        THEN /\ Puts(TabQueue(t), <<Item("warn", 0, 0, None)>>)
             /\ MusicUpdateControls(files[t], sel[t], output_dir[t], is_running[t], None)
             /\ UNCHANGED <<preview_proc, players, nplay, poll_pending>>
        ELSE IF started
        THEN /\ nplay < MaxPlays
             /\ Puts(TabQueue(t), <<Item("previewing", 0, 0, src)>>)
             /\ preview_proc' = Pid(nplay + 1)
             /\ players' = players \cup {Player(nplay + 1, src, volume_db)}
             /\ nplay' = nplay + 1
             /\ btn' = [btn EXCEPT ![t].stop = TRUE, ![t].play = FALSE]
             /\ poll_pending' = poll_pending + 1
             /\ UNCHANGED sel
        ELSE /\ nplay < MaxPlays
             /\ Puts(TabQueue(t), <<Item("previewing", 0, 0, src), Item("error", 0, 0, None)>>)
             /\ preview_proc' = None
             /\ nplay' = nplay + 1
             /\ MusicUpdateControls(files[t], sel[t], output_dir[t], is_running[t], None)
             /\ UNCHANGED <<players, poll_pending>>

\* The Play button (command=self.start_preview).
MusicPlay(started) ==
    /\ UserAt("music")
    /\ btn["music"].play
    /\ StartPreview(started)
    /\ UNCHANGED <<envVars, files, known, output_dir, convVars, log_text, tkVars,
                   prevVars, toolVars, volume_db, restart_pending, histVars>>

\* Tk runs the restart timer once its 100 ms have passed.
RestartDue(age) == age >= RESTART_DELAY_MS

\* The after(100, self.start_preview) timer of _on_volume_change fires.
CbStartPreview(started) ==
    /\ restart_pending # <<>>
    /\ RestartDue(Head(restart_pending))
    /\ restart_pending' = Tail(restart_pending)
    /\ StartPreview(started)
    /\ UNCHANGED <<envVars, files, known, output_dir, convVars, log_text, tkVars,
                   prevVars, toolVars, volume_db, histVars>>

\* MusicTab.stop_preview: what it leaves of the tracked process and of the
\* running processes.
StopPreviewState(pp, pl) ==
    IF pp = None THEN [proc |-> pp, players |-> pl]
    ELSE [proc |-> StopPreview(pp), players |-> Terminated(pl, pp)]

\* The Stop button (command=self.stop_preview).
MusicStop ==
    /\ UserAt("music")
    /\ btn["music"].stop
    /\ LET r == StopPreviewState(preview_proc, players)
       IN  /\ preview_proc' = r.proc
           /\ players' = r.players
           /\ MusicUpdateControls(files["music"], sel["music"], output_dir["music"],
                                  is_running["music"], r.proc)
    /\ UNCHANGED <<envVars, files, known, output_dir, convVars, logVars, tkVars,
                   prevVars, toolVars, volume_db, nplay, restart_pending,
                   poll_pending, histVars>>

\* MusicTab._on_volume_change, the user having moved the gain slider to db.
MusicVolumeChange(db) ==
    /\ UserAt("music")
    /\ db # volume_db
    /\ volume_db' = db
    /\ IF preview_proc # None
       THEN LET r == StopPreviewState(preview_proc, players)
            IN  /\ preview_proc' = r.proc
                /\ players' = r.players
                /\ MusicUpdateControls(files["music"], sel["music"], output_dir["music"],
                                       is_running["music"], r.proc)
                /\ restart_pending' = Append(restart_pending, 0)
       ELSE UNCHANGED <<preview_proc, players, btn, sel, restart_pending>>
    /\ UNCHANGED <<envVars, files, known, output_dir, convVars, logVars, tkVars,
                   prevVars, toolVars, nplay, poll_pending, histVars>>

\* MusicTab._poll_preview_done, run by its after(300, ...) timer: the timer
\* is set again while the tracked process runs.
PollPreviewDone ==
    /\ poll_pending > 0
    /\ IF preview_proc = None
       THEN /\ MusicUpdateControls(files["music"], sel["music"], output_dir["music"],
                                   is_running["music"], None)
            /\ poll_pending' = poll_pending - 1
            /\ UNCHANGED preview_proc
       ELSE IF Running(players, preview_proc)
       THEN UNCHANGED <<preview_proc, btn, sel, poll_pending>>
       ELSE /\ preview_proc' = None
            /\ MusicUpdateControls(files["music"], sel["music"], output_dir["music"],
                                   is_running["music"], None)
            /\ poll_pending' = poll_pending - 1
    /\ UNCHANGED <<envVars, files, known, output_dir, convVars, logVars, tkVars,
                   prevVars, toolVars, volume_db, players, nplay, restart_pending,
                   histVars>>

\* An ffplay process exits (-autoexit after PREVIEW_SECONDS, or an error).
PlayerExit(p) ==
    /\ p \in players
    /\ players' = players \ {p}
    /\ UNCHANGED <<envVars, listVars, ctlVars, convVars, logVars, tkVars, preview_proc,
                   prevVars, toolVars, volume_db, nplay, restart_pending,
                   poll_pending, histVars>>

(* ------------------------- main loop callbacks ------------------------ *)

\* MusicTab._set_progress / VideoTab: progress.configure({"value": idx}).
CbProgress ==
    /\ afterQ # <<>>
    /\ Head(afterQ).cb = "progress"
    /\ progress' = [progress EXCEPT ![Head(afterQ).tab].value = Head(afterQ).n]
    /\ afterQ' = Tail(afterQ)
    /\ UNCHANGED <<envVars, listVars, ctlVars, is_running, finished_once, workers,
                   procs, nbatch, exits, logVars, drain_pending, preview_proc,
                   prevVars, toolVars, playVars, histVars>>

\* "[OK] Convert complete." if ok.
EndLines(cb) == IF cb.ok THEN <<Item("ok", cb.batch, 0, None)>> ELSE <<>>

\* MusicTab._end_convert / VideoTab.start_convert_all.end.
CbEnd ==
    /\ afterQ # <<>>
    /\ Head(afterQ).cb = "end"
    /\ LET cb == Head(afterQ)
           t == cb.tab
       IN  /\ Puts(TabQueue(t), EndLines(cb))
           /\ is_running' = [is_running EXCEPT ![t] = FALSE]
           /\ IF t = "music"
              THEN /\ finished_once' = TRUE
                   /\ MusicUpdateControls(files[t], sel[t], output_dir[t], FALSE,
                                          preview_proc)
              ELSE /\ btn' = [btn EXCEPT ![t] =
                          VideoButtons(files[t], sel[t], output_dir[t], FALSE)]
                   /\ UNCHANGED <<finished_once, sel>>
    /\ afterQ' = Tail(afterQ)
    /\ UNCHANGED <<envVars, files, known, output_dir, progress, workers, procs,
                   nbatch, exits, log_text, drain_pending, preview_proc, prevVars,
                   toolVars, playVars, histVars>>

\* PipMediaApp._validate_tools: ffmpeg -version runs, or cannot be started
\* and both logs get a [DEBUG] and an [ERROR] line.
CbValidateTools(works) ==
    /\ afterQ # <<>>
    /\ Head(afterQ).cb = "validate"
    /\ afterQ' = Tail(afterQ)
    /\ LET lines == IF works THEN <<>>
                    ELSE <<Item("debug", 0, 0, None), Item("error", 0, 0, None)>>
           q1 == PutAll(log_q, nput, "music", lines)
           n1 == Counted(nput, "music", lines)
       IN  /\ log_q' = PutAll(q1, n1, "video", lines)
           /\ nput' = Counted(n1, "video", lines)
    /\ UNCHANGED <<envVars, listVars, ctlVars, convVars, log_text, drain_pending,
                   preview_proc, prevVars, toolVars, playVars, histVars>>

\* Variant: a queue that hands its lines over newest first.
DrainTakeLifo(q) == Reverse(q)

\* _drain_log: the lines get_nowait() hands over until queue.Empty.
DrainTake(q) == q

\* Variant: a _drain_log without its "self.after(100, self._drain_log)".
DrainOnce == FALSE

\* _drain_log: "self.after(100, self._drain_log)".
DrainReschedules == TRUE

\* MusicTab._drain_log / VideoTab._drain_log, run by its after() timer.
DrainLog(t) ==
    /\ drain_pending[t]
    /\ log_text' = [log_text EXCEPT ![t] = @ \o DrainTake(log_q[TabQueue(t)])]
    /\ log_q' = [log_q EXCEPT ![TabQueue(t)] = <<>>]
    /\ drain_pending' = [drain_pending EXCEPT ![t] = DrainReschedules]
    /\ UNCHANGED <<envVars, listVars, ctlVars, convVars, nput, afterQ, preview_proc,
                   prevVars, toolVars, playVars, histVars>>

(* ------------------------ video preview: builds ----------------------- *)

\* The model clock advances by TickMs: every pending timer is that much older.
Older(age) == MinOf(age + TickMs, PREVIEW_DEBOUNCE_MS)

Tick ==
    /\ preview_timers' = {[tm EXCEPT !.age = Older(tm.age)] : tm \in preview_timers}
    /\ sched' = [sched EXCEPT !.age = Older(sched.age)]
    /\ restart_pending' = [i \in 1..Len(restart_pending) |-> Older(restart_pending[i])]
    /\ UNCHANGED <<envVars, listVars, ctlVars, convVars, logVars, tkVars, preview_proc,
                   scale_mode, preview_target, preview_after_id, builds, nbuild, canvas,
                   preview_tmp, toolVars, volume_db, players, nplay, poll_pending,
                   histVars>>

\* Tk runs a timer once its delay has passed.
Due(tm) == tm.age >= tm.delay

\* _schedule_preview_update.go, run by its after(delay_ms, go) timer: the
\* build thread is started for the target the timer was made with.
PreviewGo(tm) ==
    /\ tm \in preview_timers
    /\ Due(tm)
    /\ nbuild < MaxBuilds
    /\ builds' = builds \cup
           {[id |-> nbuild + 1, src |-> tm.target, pc |-> "start", nout |-> 0]}
    /\ nbuild' = nbuild + 1
    /\ preview_timers' = preview_timers \ {tm}
    /\ preview_after_id' = 0
    /\ sched' = [sched EXCEPT !.builds = Append(@, [src |-> tm.target, age |-> sched.age])]
    /\ UNCHANGED <<envVars, listVars, ctlVars, convVars, logVars, tkVars, preview_proc,
                   scale_mode, preview_target, canvas, preview_tmp, toolVars, playVars, histVars>>

ShowText(msg) == Callback("show_text", "video", 0, TRUE, 0, msg)

\* _build_preview up to FFmpegProcess.run's Popen: the mode and the source
\* file are checked, the old PNG is unlinked, ffmpeg is started (or cannot be:
\* run logs the exception and returns 1).
BuildStart(b, exists, started) ==
    /\ b \in builds
    /\ b.pc = "start"
    /\ IF scale_mode = "custom"
       THEN /\ builds' = builds \ {b}
            /\ UNCHANGED <<afterQ, preview_tmp, log_q, nput>>
       ELSE IF ~exists
       THEN /\ builds' = builds \ {b}
            /\ afterQ' = Append(afterQ, ShowText("No preview"))
            /\ UNCHANGED <<preview_tmp, log_q, nput>>
       ELSE /\ preview_tmp' = "absent"
            /\ IF started
               THEN /\ builds' = (builds \ {b}) \cup {[b EXCEPT !.pc = "run"]}
                    /\ UNCHANGED <<afterQ, log_q, nput>>
               ELSE /\ builds' = builds \ {b}
                    /\ Puts(TabQueue("video"), <<Item("exception", 0, 0, b.src)>>)
                    /\ afterQ' = Append(afterQ, ShowText("(Preview unavailable)"))
    /\ UNCHANGED <<envVars, listVars, ctlVars, convVars, log_text, drain_pending,
                   preview_proc, scale_mode, preview_target, preview_after_id,
                   preview_timers, nbuild, canvas, sched, toolVars, playVars, histVars>>

\* FFmpegProcess.run in a build thread: one stderr line is put on the log.
BuildRead(b) ==
    /\ b \in builds
    /\ b.pc = "run"
    /\ b.nout < MaxOut
    /\ builds' = (builds \ {b}) \cup {[b EXCEPT !.nout = b.nout + 1]}
    /\ Puts(TabQueue("video"), <<Item("out", 0, 0, b.src)>>)
    /\ UNCHANGED <<envVars, listVars, ctlVars, convVars, log_text, tkVars, preview_proc,
                   scale_mode, preview_target, preview_after_id, preview_timers,
                   nbuild, canvas, preview_tmp, sched, toolVars, playVars, histVars>>

\* _build_preview: "if self._preview_target != src: return".
Stale(src) == preview_target # src

\* FFmpegProcess.run returns code in a build thread (wrote: ffmpeg has
\* written the PNG), and _build_preview ends: the result is dropped, or the
\* apply or the "(Preview unavailable)" callback is scheduled.
BuildWait(b, code, wrote) ==
    /\ b \in builds
    /\ b.pc = "run"
    /\ wrote => code = 0
    /\ LET tmp == IF wrote THEN b.src ELSE preview_tmp
       IN  /\ preview_tmp' = tmp
           /\ afterQ' =
                  IF code # 0 \/ tmp \in {"unset", "absent"}
                  THEN Append(afterQ, ShowText("(Preview unavailable)"))
                  ELSE IF Stale(b.src) THEN afterQ
                  ELSE Append(afterQ, Callback("apply", "video", 0, TRUE, 0, ""))
    /\ builds' = builds \ {b}
    /\ UNCHANGED <<envVars, listVars, ctlVars, convVars, logVars, drain_pending,
                   preview_proc, scale_mode, preview_target, preview_after_id,
                   preview_timers, nbuild, canvas, sched, toolVars, playVars, histVars>>

\* _build_preview.apply: the PNG is loaded as it is now and drawn.
CbApply ==
    /\ afterQ # <<>>
    /\ Head(afterQ).cb = "apply"
    /\ canvas' = IF preview_tmp \in {"unset", "absent"}
                 THEN Text("(Preview unsupported)")
                 ELSE Image(preview_tmp)
    /\ afterQ' = Tail(afterQ)
    /\ UNCHANGED <<envVars, listVars, ctlVars, convVars, logVars, drain_pending,
                   preview_proc, scale_mode, preview_target, preview_after_id,
                   preview_timers, builds, nbuild, preview_tmp, sched, toolVars,
                   playVars, histVars>>

\* The after(0, lambda: self._preview_show_text(...)) callbacks.
CbShowText ==
    /\ afterQ # <<>>
    /\ Head(afterQ).cb = "show_text"
    /\ canvas' = Text(Head(afterQ).msg)
    /\ afterQ' = Tail(afterQ)
    /\ UNCHANGED <<envVars, listVars, ctlVars, convVars, logVars, drain_pending,
                   preview_proc, scale_mode, preview_target, preview_after_id,
                   preview_timers, builds, nbuild, preview_tmp, sched, toolVars,
                   playVars, histVars>>

(* ----------------------------- resolve_tool --------------------------- *)

\* The tools resolve_ffmpeg_path and resolve_ffprobe_path ask for:
\* preferred_name_with_ext and path_name_no_ext.
Tools == {[exe |-> "ffmpeg.exe", name |-> "ffmpeg"],
          [exe |-> "ffprobe.exe", name |-> "ffprobe"]}

\* Folders of PATH a tool can be installed in.
PathDirs == {"/usr/bin", "/opt/ffmpeg"}

\* _bin_candidate: _app_base_dir() / "bin" / exe_name.
bin_candidate(exe) == <<"app", "bin", exe>>

\* "found = shutil.which(path_name_no_ext)": the hit on PATH, or the empty
\* path <<>> for None ("if found:" is false for both).
which(env, name) == IF env.path[name] = None THEN <<>> ELSE <<env.path[name], name>>

\* Variant: a resolve_tool that searches PATH first and bin/ second.
resolve_tool_path_first(env, exe, name) ==
    IF which(env, name) # <<>> THEN which(env, name) ELSE bin_candidate(exe)

\* resolve_tool(preferred_name_with_ext, path_name_no_ext) in the environment
\* env (the files of bin/ and the folder of PATH each tool is in).
resolve_tool(env, exe, name) ==
    LET local_path == bin_candidate(exe)
        found == which(env, name)
    IN  IF exe \in env.bin THEN local_path
        ELSE IF found # <<>> THEN found
        ELSE local_path

\* tool_ret before any call.
NoCall == [tool |-> [exe |-> None, name |-> None], path |-> <<>>]

\* A caller (resolve_ffmpeg_path, resolve_ffprobe_path) resolves the tool.
ResolveTool(tool) ==
    /\ tool_ret' = [tool |-> tool, path |-> resolve_tool(tool_env, tool.exe, tool.name)]
    /\ UNCHANGED <<envVars, listVars, ctlVars, convVars, logVars, tkVars, preview_proc,
                   prevVars, tool_env, run_ret, playVars, histVars>>

(* -------------------------- FFmpegProcess.run ------------------------- *)

\* What subprocess.Popen and the iteration of proc.stderr (text mode) raise:
\* the executable is missing or may not be run, a line does not decode.
PopenErrors == {"FileNotFoundError", "PermissionError"}

ReadErrors == {"UnicodeDecodeError"}

\* What the subprocess writes to stderr, line by line: a progress line, an
\* empty line, or bytes that do not decode.
StderrLines == {"frame=1\n", "\n", "undecodable"}

\* line.strip()
Strip(line) == IF line = "frame=1\n" THEN "frame=1" ELSE ""

\* The world of one call of run: whether Popen raises (and what), what the
\* subprocess writes to stderr and its exit code.
RunEnvs ==
    [popen : PopenErrors, stderr : {<<>>}, code : {1}]
    \cup [popen : {None}, stderr : {<<>>} \cup SeqsUpTo(StderrLines, MaxStderr),
          code : ExitCodes]

\* self.log_q.put(line.strip()) and self.log_q.put(f"[ERROR] {e}").
OutLine(text) == [kind |-> "out", v |-> text]

ErrorLine(exc) == [kind |-> "error", v |-> exc]

\* Variant: a handler "except OSError".
CatchesOSError(exc) == exc \in PopenErrors

\* "except Exception as e": every exception Popen and the read raise is one.
Catches(exc) == exc \in PopenErrors \cup ReadErrors

\* "for line in proc.stderr: self.log_q.put(line.strip())": the lines put
\* after those of put, and the exception that ended the loop (None: EOF).
RECURSIVE ReadLoop(_, _)
ReadLoop(stderr, put) ==
    IF stderr = <<>> THEN [puts |-> put, raised |-> None]
    ELSE IF Head(stderr) = "undecodable"
    THEN [puts |-> put, raised |-> "UnicodeDecodeError"]
    ELSE ReadLoop(Tail(stderr), Append(put, OutLine(Strip(Head(stderr)))))

\* The except branch of run for the exception exc, puts being on the queue:
\* one error line and 1, or the exception leaves run (ret -1).
Handled(exc, puts) ==
    IF Catches(exc)
    THEN [ret |-> 1, puts |-> Append(puts, ErrorLine(exc)), raised |-> None]
    ELSE [ret |-> -1, puts |-> puts, raised |-> exc]

\* FFmpegProcess.run(args) in the world env: what it returns (ret), the
\* lines it puts on the log queue, and the exception it raises (None: none).
run(env) ==
    IF env.popen # None THEN Handled(env.popen, <<>>)
    ELSE LET r == ReadLoop(env.stderr, <<>>)
         IN  IF r.raised # None THEN Handled(r.raised, r.puts)
             ELSE [ret |-> env.code, puts |-> r.puts, raised |-> None]

\* run_ret before any call.
NoRun == [tab |-> None, env |-> [popen |-> None, stderr |-> <<>>, code |-> 0],
          ret |-> 0, puts |-> <<>>, raised |-> None]

\* self.ff.run(cmd) is called in tab t (MusicTab.ff is an instance of the
\* FFmpegProcess of music_tab.py, VideoTab.ff of that of ffmpeg_tools.py).
RunCall(t, env) ==
    /\ LET r == run(env)
       IN  run_ret' = [tab |-> t, env |-> env, ret |-> r.ret, puts |-> r.puts,
                       raised |-> r.raised]
    /\ UNCHANGED <<envVars, listVars, ctlVars, convVars, logVars, tkVars, preview_proc,
                   prevVars, tool_env, tool_ret, playVars, histVars>>

(* ---------------------------- specifications ------------------------- *)

\* PipMediaApp.__init__: both queues get the two start-up notes.
StartNotes(t) == <<Line(t, 1, "note", 0, 0, None), Line(t, 2, "note", 0, 0, None)>>

\* The file lists and buttons of the two tabs as their __init__ leaves them.
InitLists ==
    /\ files = [t \in Tabs |-> <<>>]
    /\ known = [t \in Tabs |-> {}]
    /\ sel = [t \in Tabs |-> {}]
    /\ output_dir = [t \in Tabs |-> FALSE]
    /\ btn = [t \in Tabs |-> NoButtons]

\* Conversion, log and preview state after PipMediaApp() has returned, with
\* the callbacks in first that mainloop() is still to run.
InitRest(first) ==
    /\ is_running = [t \in Tabs |-> FALSE]
    /\ finished_once = FALSE
    /\ progress = [t \in Tabs |-> [max |-> 100, value |-> 0]]
    /\ workers = [t \in Tabs |-> <<>>]
    /\ procs = {}
    /\ nbatch = [t \in Tabs |-> 0]
    /\ exits = {}
    /\ log_q = [t \in Tabs |-> StartNotes(t)]
    /\ log_text = [t \in Tabs |-> <<>>]
    /\ nput = [t \in Tabs |-> 2]
    /\ afterQ = first
    /\ drain_pending = [t \in Tabs |-> TRUE]
    /\ preview_proc = None
    /\ scale_mode = "contain"
    /\ builds = {}
    /\ nbuild = 0
    /\ canvas = Text("No preview")
    /\ preview_tmp = "unset"
    /\ tool_ret = NoCall
    /\ run_ret = NoRun
    /\ volume_db = 0
    /\ players = {}
    /\ nplay = 0
    /\ restart_pending = <<>>
    /\ poll_pending = 0
    /\ pressed = [t \in Tabs |-> <<>>]
    /\ cmds = {}

\* VideoTab.__init__: no preview update is scheduled.
InitPreview ==
    /\ preview_target = None
    /\ preview_after_id = 0
    /\ preview_timers = {}
    /\ sched = [file |-> None, age |-> PREVIEW_DEBOUNCE_MS, builds |-> <<>>,
                burst |-> 0]

\* The environment the module-level FFMPEG_CMD = resolve_ffmpeg_path() ran in.
NoTools == [bin |-> {}, path |-> [n \in {tl.name : tl \in Tools} |-> None]]

\* The application after PipMediaApp() has returned, before mainloop() runs
\* its first callback, the after(0, self._validate_tools) of __init__.
InitApp ==
    /\ InitLists
    /\ InitRest(<<Callback("validate", None, 0, TRUE, 0, "")>>)
    /\ InitPreview
    /\ tool_env = NoTools

\* What the user does in the Music tab.
MusicUser ==
    \/ \E paths \in SeqsUpTo(MusicBasic, 2) : MusicAddFiles(paths)
    \/ MusicAddFiles(<<>>)
    \/ MusicRemoveSelected
    \/ MusicClearList
    \/ \E delta \in {-1, 1} : MusicMoveSelected(delta)
    \/ \E s \in SUBSET (1..Len(files["music"])) : MusicListSelect(s)
    \/ \E v \in BOOLEAN : MusicSetOutput(v)
    \/ MusicStartConvertAll

\* What the user does in the Video tab, the scaling mode aside.
VideoUser ==
    \/ \E paths \in SeqsUpTo(VideoBasic, 2) : VideoAddFiles(paths)
    \/ VideoRemoveSelected
    \/ VideoClearList
    \/ \E delta \in {-1, 1} : VideoMoveSelected(delta)
    \/ \E s \in SUBSET (1..Len(files["video"])) : VideoListSelect(s)
    \/ \E v \in BOOLEAN : VideoSetOutput(v)
    \/ VideoStartConvertAll

\* The user works in the tab in front.
User ==
    \/ MusicUser
    \/ VideoUser

\* The conversion worker threads and their subprocesses.
Convert ==
    \/ \E t \in Tabs, w \in 1..MaxBatches :
           \/ WorkerNext(t, w)
           \/ WorkerPopen(t, w)
           \/ WorkerPopenFails(t, w)
           \/ WorkerRead(t, w)
           \/ WorkerReadFails(t, w)
           \/ \E code \in ExitCodes : WorkerWait(t, w, code)
    \/ \E p \in procs : ProcExit(p)

\* The after(0, ...) callbacks of the conversions and of __init__.
Callbacks ==
    \/ CbProgress
    \/ CbEnd
    \/ \E works \in BOOLEAN : CbValidateTools(works)

\* The video thumbnail preview: clock, timer, build threads, callbacks.
Preview ==
    \/ Tick
    \/ \E tm \in preview_timers : PreviewGo(tm)
    \/ \E b \in builds, exists, started \in BOOLEAN : BuildStart(b, exists, started)
    \/ \E b \in builds : BuildRead(b)
    \/ \E b \in builds, code \in ExitCodes, wrote \in BOOLEAN : BuildWait(b, code, wrote)
    \/ CbApply
    \/ CbShowText

\* The audio preview of the music tab: the Play and Stop buttons, the gain
\* slider, the restart and poll timers and the ffplay processes.
Play ==
    \/ \E started \in BOOLEAN : MusicPlay(started)
    \/ MusicStop
    \/ \E db \in Gains : MusicVolumeChange(db)
    \/ \E started \in BOOLEAN : CbStartPreview(started)
    \/ PollPreviewDone
    \/ \E p \in players : PlayerExit(p)

\* The application as a whole, the user working in one tab (either one) of a
\* Windows build.
Init ==
    /\ InitApp
    /\ os_nt = TRUE
    /\ tab \in Tabs

Next ==
    \/ User
    \/ \E t \in Tabs : SelectTab(t)
    \/ \E m \in ScaleModes : VideoModeChange(m)
    \/ Play
    \/ Convert
    \/ Callbacks
    \/ Preview
    \/ \E t \in Tabs : DrainLog(t)

Spec == Init /\ [][Next]_vars

\* Conversions: the lists are edited and batches run; the logs are not
\* drained and the preview timers do not fire.
NextConvert ==
    \/ User
    \/ Convert
    \/ Callbacks

SpecConvert == Init /\ [][NextConvert]_vars

\* A tab after add_files has put the first n files of its dialog in the list.
LoadedFiles(t, n) ==
    SubSeq(IF t = "music" THEN <<"a.mp3", "b.mp3">> ELSE <<"a.mp4", "b.mp4">>, 1, n)

\* The application once _validate_tools has found ffmpeg and the user has
\* added one or two files to the tab in front and picked its output folder;
\* nothing is drained from the logs yet.  In the video tab add_files has
\* scheduled the preview of the first file.
InitLoaded ==
    /\ os_nt = TRUE
    /\ tab \in Tabs
    /\ \E n \in 1..2 :
           files = [t \in Tabs |-> IF t = tab THEN LoadedFiles(t, n) ELSE <<>>]
    /\ known = [t \in Tabs |-> {normalize(files[t][i]) : i \in 1..Len(files[t])}]
    /\ sel = [t \in Tabs |-> RefreshSel(files[t])]
    /\ output_dir = [t \in Tabs |-> t = tab]
    /\ btn = [t \in Tabs |->
                 IF t # tab THEN NoButtons
                 ELSE IF t = "music"
                 THEN MusicButtons(files[t], sel[t], TRUE, FALSE, None)
                 ELSE VideoButtons(files[t], sel[t], TRUE, FALSE)]
    /\ InitRest(<<>>)
    /\ IF tab = "music" THEN InitPreview
       ELSE /\ preview_target = files[tab][1]
            /\ preview_after_id = 1
            /\ preview_timers = {[id |-> 1, target |-> files[tab][1], age |-> 0,
                                  delay |-> PREVIEW_DEBOUNCE_MS]}
            /\ sched = [file |-> files[tab][1], age |-> 0, builds |-> <<>>,
                        burst |-> 1]
    /\ tool_env = NoTools

\* The logs: batches run on the loaded lists and the preview scheduled by
\* add_files is built, while the main loop drains both log queues.
NextLog ==
    \/ MusicStartConvertAll
    \/ VideoStartConvertAll
    \/ Convert
    \/ CbProgress
    \/ CbEnd
    \/ Preview
    \/ \E t \in Tabs : DrainLog(t)

SpecLog == InitLoaded /\ [][NextLog]_vars

\* The logs with the Tk main loop running every after() timer that is due.
LiveLog ==
    /\ SpecLog
    /\ \A t \in Tabs : WF_vars(DrainLog(t))

\* The scaling modes as the preview tells them apart: "cover" and "stretch"
\* schedule and build as "contain" does.
PreviewModes == {"contain", "custom"}

\* The video preview: the user changes the selection, the scaling mode and
\* the list of the video tab while timers fire and thumbnails are built.
NextPreview ==
    \/ \E s \in SUBSET (1..Len(files["video"])) : VideoListSelect(s)
    \/ \E m \in PreviewModes : VideoModeChange(m)
    \/ \E paths \in SeqsUpTo(VideoBasic, 2) : VideoAddFiles(paths)
    \/ VideoRemoveSelected
    \/ VideoClearList
    \/ \E delta \in {-1, 1} : VideoMoveSelected(delta)
    \/ Preview

\* The video tab is in front, its list loaded.
InitVideo ==
    /\ InitLoaded
    /\ tab = "video"

SpecPreview == InitVideo /\ [][NextPreview]_vars

\* The environments resolve_tool can run in: which tools bin/ holds and the
\* folder of PATH, if any, each tool is in.
ToolEnvs ==
    [bin : SUBSET {tl.exe : tl \in Tools},
     path : [{tl.name : tl \in Tools} -> PathDirs \cup {None}]]

\* The module-level resolve_ffmpeg_path() and resolve_ffprobe_path() calls,
\* in any environment.
InitTool ==
    /\ InitLists
    /\ InitRest(<<Callback("validate", None, 0, TRUE, 0, "")>>)
    /\ InitPreview
    /\ os_nt = TRUE
    /\ tab = "music"
    /\ tool_env \in ToolEnvs

NextTool == \E tool \in Tools : ResolveTool(tool)

SpecTool == InitTool /\ [][NextTool]_vars

\* Conversions under fair scheduling: every worker thread keeps running, every
\* ffmpeg subprocess it waits for exits, and the Tk main loop keeps running
\* the callbacks handed to after(0, ...).
WorkerStep(t) ==
    \E w \in 1..MaxBatches :
        \/ WorkerNext(t, w)
        \/ WorkerPopen(t, w)
        \/ WorkerPopenFails(t, w)
        \/ WorkerRead(t, w)
        \/ WorkerReadFails(t, w)
        \/ \E code \in ExitCodes : WorkerWait(t, w, code)

LiveConvert ==
    /\ SpecConvert
    /\ \A t \in Tabs : WF_vars(WorkerStep(t))
    /\ WF_vars(Callbacks)

\* The options: batches run on the loaded lists while the user moves the
\* gain slider and clicks the scaling radio buttons.
NextOptions ==
    \/ MusicStartConvertAll
    \/ VideoStartConvertAll
    \/ \E db \in Gains : MusicVolumeChange(db)
    \/ \E m \in ScaleModes : VideoModeChange(m)
    \/ Convert
    \/ CbProgress
    \/ CbEnd

SpecOptions == InitLoaded /\ [][NextOptions]_vars

\* The music tab is in front, its list loaded.
InitMusic ==
    /\ InitLoaded
    /\ tab = "music"

\* The audio preview: the user plays and stops previews, moves the gain
\* slider, changes the selection and shortens the list, while the timers fire
\* and the ffplay processes exit.
NextPlay ==
    \/ Play
    \/ Tick
    \/ \E s \in SUBSET (1..Len(files["music"])) : MusicListSelect(s)
    \/ MusicRemoveSelected
    \/ MusicClearList

SpecPlay == InitMusic /\ [][NextPlay]_vars

\* The audio preview and the conversions of the music tab.
NextPlayConvert ==
    \/ Play
    \/ Tick
    \/ MusicStartConvertAll
    \/ Convert
    \/ CbProgress
    \/ CbEnd

SpecPlayConvert == InitMusic /\ [][NextPlayConvert]_vars

\* The file lists alone, on Windows and on POSIX: the dialogs return any
\* paths of the pools, upper-case spellings and other files included.
InitAnyOs ==
    /\ InitApp
    /\ os_nt \in BOOLEAN
    /\ tab \in Tabs

NextLists ==
    \/ \E works \in BOOLEAN : CbValidateTools(works)
    \/ \E paths \in SeqsUpTo(MusicPool, 2) : MusicAddFiles(paths)
    \/ MusicRemoveSelected
    \/ MusicClearList
    \/ \E delta \in {-1, 1} : MusicMoveSelected(delta)
    \/ \E s \in SUBSET (1..Len(files["music"])) : MusicListSelect(s)
    \/ \E paths \in SeqsUpTo(VideoPool, 2) : VideoAddFiles(paths)
    \/ VideoRemoveSelected
    \/ VideoClearList
    \/ \E delta \in {-1, 1} : VideoMoveSelected(delta)
    \/ \E s \in SUBSET (1..Len(files["video"])) : VideoListSelect(s)

SpecLists == InitAnyOs /\ [][NextLists]_vars

\* Both tabs after add_files has put one file in their lists and the user
\* has chosen their output folders, the video file having been added last.
InitBothLoaded ==
    /\ os_nt = TRUE
    /\ tab \in Tabs
    /\ files = [t \in Tabs |-> LoadedFiles(t, 1)]
    /\ known = [t \in Tabs |-> {normalize(files[t][i]) : i \in 1..Len(files[t])}]
    /\ sel = [t \in Tabs |-> RefreshSel(files[t])]
    /\ output_dir = [t \in Tabs |-> TRUE]
    /\ btn = [t \in Tabs |->
                 IF t = "music"
                 THEN MusicButtons(files[t], sel[t], TRUE, FALSE, None)
                 ELSE VideoButtons(files[t], sel[t], TRUE, FALSE)]
    /\ InitRest(<<>>)
    /\ preview_target = files["video"][1]
    /\ preview_after_id = 1
    /\ preview_timers = {[id |-> 1, target |-> files["video"][1], age |-> 0,
                          delay |-> PREVIEW_DEBOUNCE_MS]}
    /\ sched = [file |-> files["video"][1], age |-> 0, builds |-> <<>>, burst |-> 1]
    /\ tool_env = NoTools

\* The two tabs together: the user goes from one to the other and presses
\* their Convert buttons while batches run.
NextTabs ==
    \/ \E t \in Tabs : SelectTab(t)
    \/ MusicStartConvertAll
    \/ VideoStartConvertAll
    \/ Convert
    \/ CbProgress
    \/ CbEnd

SpecTabs == InitBothLoaded /\ [][NextTabs]_vars

\* FFmpegProcess.run alone, called with every world of RunEnvs.
NextRun == \E t \in Tabs : \E env \in RunEnvs : RunCall(t, env)

SpecRun == Init /\ [][NextRun]_vars

(* ------------------------------ properties ---------------------------- *)

\* The lines put on queue q so far, in the order of the puts: those the log
\* panel shows, then those still in the queue.
Logged(q) == log_text[q] \o log_q[q]

\* The lines of kind kind that batch b of tab t has logged.
BatchLines(t, b, kind) ==
    SelectSeq(Logged(t), LAMBDA l : l.kind = kind /\ l.batch = b)

\* The after(0, ...) callbacks cb of tab t that wait to be run: their places
\* in afterQ.
Waiting(cb, t) == {i \in 1..Len(afterQ) : afterQ[i].cb = cb /\ afterQ[i].tab = t}

\* C1: a batch converts its files one at a time in list order.  A batch
\* never has two conversion subprocesses running; the subprocess of a running
\* batch is the one of the file its worker is at, and the worker is inside
\* FFmpegProcess.run until it has exited; the files are taken in the order
\* 1, 2, ... of the list (music: of the list the batch was started with).
C1_OneAtATime ==
    \A t \in Tabs :
        /\ \A p1, p2 \in procs :
               (p1.tab = t /\ p2.tab = t /\ p1.batch = p2.batch) => p1 = p2
        /\ \A w \in 1..Len(workers[t]) : \A p \in procs :
               (p.tab = t /\ p.batch = workers[t][w].batch) =>
                   /\ workers[t][w].pc = "read"
                   /\ p.k = workers[t][w].i
                   /\ p.src = workers[t][w].src
        /\ \A w \in 1..Len(workers[t]) :
               (t = "music" /\ workers[t][w].i >= 1) =>
                   workers[t][w].src = workers[t][w].files[workers[t][w].i]
        /\ \A b \in 1..nbatch[t] :
               \A i \in 1..Len(BatchLines(t, b, "converting")) :
                   BatchLines(t, b, "converting")[i].k = i

\* C1 witness: the subprocess of the second file of a batch is running (its
\* first file has been converted).
C1_Witness ==
    \E p \in procs : p.k = 2 /\ [tab |-> p.tab, batch |-> p.batch, k |-> 1, code |-> 0] \in exits

\* C2: a non-zero exit code (or a subprocess that cannot be started) stops
\* the batch.  For every FFmpegProcess.run that returned non-zero: the
\* "Conversion failed" line of that file is logged, it is the only such line
\* of the batch, the worker has returned, and no later file of the batch was
\* or is being converted, and the batch has ended or its end(False) callback
\* is waiting.  A "Conversion failed" line is logged for a failure only.
C2_StopOnFirstFailure ==
    /\ \A e \in exits : e.code # 0 =>
           /\ Len(BatchLines(e.tab, e.batch, "failed")) = 1
           /\ BatchLines(e.tab, e.batch, "failed")[1].k = e.k
           /\ \A w \in 1..Len(workers[e.tab]) : workers[e.tab][w].batch # e.batch
           /\ \A i \in 1..Len(BatchLines(e.tab, e.batch, "converting")) :
                  BatchLines(e.tab, e.batch, "converting")[i].k <= e.k
           /\ \A e2 \in exits : (e2.tab = e.tab /\ e2.batch = e.batch) => e2.k <= e.k
           /\ \A p \in procs : (p.tab = e.tab /\ p.batch = e.batch) => p.k <= e.k
           /\ \/ ~is_running[e.tab]
              \/ nbatch[e.tab] > e.batch
              \/ \E i \in 1..Len(afterQ) :
                     afterQ[i] = Callback("end", e.tab, e.batch, FALSE, 0, "")
    /\ \A t \in Tabs : \A i \in 1..Len(Logged(t)) :
           Logged(t)[i].kind = "failed" =>
               \E e \in exits : /\ e.code # 0
                                /\ e.tab = t
                                /\ e.batch = Logged(t)[i].batch
                                /\ e.k = Logged(t)[i].k

\* C2 witness: the first file of a batch of two has failed and the batch has
\* ended.
C2_Witness ==
    \E e \in exits :
        /\ e.code # 0
        /\ e.k = 1
        /\ progress[e.tab].max = 2
        /\ ~is_running[e.tab]

\* C7: a tab has at most one conversion worker thread, and a worker only
\* while is_running is true (it is set before the thread starts); while
\* is_running is true start_convert_all does nothing: no step adds a thread
\* or changes the progress maximum, and the progress value changes only when
\* the main loop runs a progress callback.
C7_OneWorker ==
    /\ [](\A t \in Tabs : /\ Len(workers[t]) <= 1
                          /\ (workers[t] # <<>> => is_running[t]))
    /\ [][\A t \in Tabs : is_running[t] =>
              /\ Len(workers'[t]) <= Len(workers[t])
              /\ progress'[t].max = progress[t].max
              /\ (progress'[t].value # progress[t].value =>
                      /\ afterQ # <<>>
                      /\ Head(afterQ).cb = "progress"
                      /\ afterQ' = Tail(afterQ))]_vars

\* C7 witness: a batch is running with its worker and the Convert button can
\* be pressed again.
C7_Witness ==
    \E t \in Tabs : is_running[t] /\ Len(workers[t]) = 1 /\ btn[t].convert

\* C9: every batch that starts ends.  is_running goes back to false; only
\* the end callback sets it back; while a batch runs there is exactly one of
\* its worker thread and its end callback, none when no batch runs; and the
\* end callback comes after every progress callback of its tab.
C9_BatchEnds ==
    /\ \A t \in Tabs : is_running[t] ~> ~is_running[t]
    /\ [](\A t \in Tabs :
              /\ Len(workers[t]) + Cardinality(Waiting("end", t))
                     = (IF is_running[t] THEN 1 ELSE 0)
              /\ \A i \in Waiting("end", t) : \A j \in Waiting("progress", t) : j < i)
    /\ [][\A t \in Tabs : (is_running[t] /\ ~is_running'[t]) =>
              /\ afterQ # <<>>
              /\ Head(afterQ).cb = "end"
              /\ Head(afterQ).tab = t
              /\ afterQ' = Tail(afterQ)]_vars

\* C9 witness: a batch of two files has ended after both were converted and
\* reported.
C9_Witness ==
    \E t \in Tabs :
        /\ nbatch[t] = 1
        /\ ~is_running[t]
        /\ progress[t] = [max |-> 2, value |-> 2]
        /\ \A e \in exits : e.code = 0

\* C10: whenever a batch is running the Up, Down, Remove, Clear and Convert
\* buttons of its tab are disabled.
C10_ButtonsDisabled ==
    \A t \in Tabs : is_running[t] =>
        /\ ~btn[t].up
        /\ ~btn[t].down
        /\ ~btn[t].remove
        /\ ~btn[t].clear
        /\ ~btn[t].convert

\* The places of the lines of kind kind about file k of batch b among lines.
Places(lines, kind, b, k) ==
    {i \in 1..Len(lines) : lines[i].kind = kind /\ lines[i].batch = b /\ lines[i].k = k}

\* C3: the lines put on a tab's queue reach its log panel once each and in
\* the order of the puts.  The panel followed by what is still queued is the
\* sequence of all puts on that queue (put number i at place i, none missing,
\* none twice); and for each file of a batch its "Converting" line comes
\* before every output line of its subprocess and its "Conversion failed"
\* line after them.
C3_LogInOrder ==
    \A t \in Tabs :
        /\ Len(Logged(t)) = nput[t]
        /\ \A i \in 1..Len(Logged(t)) : Logged(t)[i].n = i /\ Logged(t)[i].q = t
        /\ \A i \in 1..Len(log_text[t]) :
               LET l == log_text[t][i]
               IN  /\ l.kind \in {"out", "exception", "failed"} /\ l.batch > 0 =>
                       \E j \in Places(log_text[t], "converting", l.batch, l.k) : j < i
                   /\ l.kind = "failed" =>
                       \A j \in Places(log_text[t], "out", l.batch, l.k)
                                   \cup Places(log_text[t], "exception", l.batch, l.k) :
                           j < i

\* C3 witness: the panel shows the Converting line, an output line and the
\* Conversion failed line of one file.
C3_Witness ==
    \E t \in Tabs : \E i \in 1..Len(log_text[t]) :
        /\ log_text[t][i].kind = "failed"
        /\ Places(log_text[t], "out", log_text[t][i].batch, log_text[t][i].k) # {}
        /\ Places(log_text[t], "converting", log_text[t][i].batch, log_text[t][i].k) # {}

\* C4: every line put on a tab's queue is eventually appended to its panel.
\* Again and again the panel holds every line put so far; the drain timer of
\* each tab is always pending; and a step that appends to a panel leaves that
\* tab's queue empty.
C4_EveryLineShown ==
    /\ \A t \in Tabs : []<>(Len(log_text[t]) = nput[t])
    /\ [](\A t \in Tabs : drain_pending[t])
    /\ [][\A t \in Tabs : log_text'[t] # log_text[t] => log_q'[t] = <<>>]_vars

\* C4 witness: a batch has ended and the panel shows all its lines.
C4_Witness ==
    \E t \in Tabs :
        /\ nbatch[t] = 1
        /\ ~is_running[t]
        /\ nput[t] > 2
        /\ Len(log_text[t]) = nput[t]

\* The threads that put lines on queue q from inside a loop of their own: the
\* conversion workers and the thumbnail build threads of the tab constructed
\* with q.
Producers(q) ==
    UNION {{<<"worker", t, w>> : w \in 1..Len(workers[t])} :
               t \in {x \in Tabs : TabQueue(x) = q}}
    \cup (IF TabQueue("video") = q THEN {<<"build", b.id>> : b \in builds} ELSE {})

\* s is the beginning of r.
IsPrefix(s, r) == Len(s) <= Len(r) /\ \A i \in 1..Len(s) : s[i] = r[i]

\* A tab's panel shows lines of its own queue only.
OwnLinesOnly == \A t \in Tabs : \A i \in 1..Len(log_text[t]) : log_text[t][i].q = t

\* C5 as claimed: at most one thread at a time puts lines on a tab's queue,
\* and a tab's panel shows lines of its own queue only.
C5_OneProducer ==
    /\ \A q \in Tabs : Cardinality(Producers(q)) <= 1
    /\ OwnLinesOnly

\* C5 amended: each queue has one consumer, its tab's _drain_log.  A panel
\* shows lines of its own queue only, and lines leave a queue only by being
\* appended, all of them, to the panel of its tab.  (Several threads put
\* lines on the video queue at once: the conversion worker and the thumbnail
\* build threads.)
C5_OneConsumer ==
    /\ []OwnLinesOnly
    /\ [][\A q \in Tabs : ~IsPrefix(log_q[q], log_q'[q])
              => /\ log_q'[q] = <<>>
                 /\ log_text'[q] = log_text[q] \o log_q[q]]_vars

\* C5 witness: the video panel shows a line of the conversion worker and a
\* line of a thumbnail build, and the music panel its two start-up notes.
C5_Witness ==
    /\ \E i \in 1..Len(log_text["video"]) : log_text["video"][i].kind = "converting"
    /\ \E i \in 1..Len(log_text["video"]) :
           log_text["video"][i].kind \in {"out", "exception"} /\ log_text["video"][i].batch = 0
    /\ Len(log_text["music"]) = 2

\* The debounce as it holds in every state: at most one preview timer is
\* pending, and it is the one of the last scheduling; since the last
\* scheduling either its timer is pending or exactly one build was started,
\* 250 ms or more after it and for its file.
Debounced ==
    /\ Cardinality(preview_timers) <= 1
    /\ \A tm \in preview_timers :
           /\ tm.id = preview_after_id
           /\ tm.target = sched.file
           /\ tm.target = preview_target
    /\ sched.file # None => Cardinality(preview_timers) + Len(sched.builds) = 1
    /\ \A i \in 1..Len(sched.builds) :
           /\ sched.builds[i].src = sched.file
           /\ sched.builds[i].age >= PREVIEW_DEBOUNCE_MS

\* The selected file of the video tab after a step changed the selection.
NewlySelected ==
    IF sel'["video"] # sel["video"] /\ sel'["video"] # {}
    THEN files'["video"][Min(sel'["video"])] ELSE None

\* The step schedules the preview of file f: its timer is the pending one.
Schedules(f) ==
    /\ sched'.file = f
    /\ sched'.age = 0
    /\ sched'.builds = <<>>
    /\ \E tm \in preview_timers' : tm.target = f /\ tm.age = 0

\* C6 as claimed: the debounce holds and every change of the selection to a
\* file schedules the preview of that file, so that a burst of changes ends
\* in one build, for the file selected last.
C6_Debounce ==
    /\ []Debounced
    /\ [][NewlySelected # None => Schedules(NewlySelected)]_vars

\* C6 amended: the same while the scaling mode is not "custom" (in custom
\* mode a change of the selection schedules nothing and starts no build).
C6_DebounceNotCustom ==
    /\ []Debounced
    /\ [][(NewlySelected # None /\ scale_mode' # "custom") => Schedules(NewlySelected)]_vars

\* C6 witness: two schedulings less than 250 ms apart were followed by one
\* build, the only one so far, for the file of the second.
C6_Witness ==
    /\ sched.burst = 2
    /\ nbuild = 1
    /\ Len(sched.builds) = 1
    /\ sched.builds[1].src = sched.file
    /\ sched.file = "b.mp4"

\* C8: resolve_tool returns the bin/ path whenever that file exists,
\* otherwise the PATH hit when there is one, otherwise the bin/ path; what it
\* returns is never empty.
C8_ResolveTool ==
    tool_ret # NoCall =>
        LET exe == tool_ret.tool.exe
            name == tool_ret.tool.name
            hit == tool_env.path[name]
        IN  /\ exe \in tool_env.bin => tool_ret.path = <<"app", "bin", exe>>
            /\ (exe \notin tool_env.bin /\ hit # None) => tool_ret.path = <<hit, name>>
            /\ (exe \notin tool_env.bin /\ hit = None) => tool_ret.path = <<"app", "bin", exe>>
            /\ tool_ret.path # <<>>

\* C8 witness: ffmpeg is in bin/ and on PATH, and was resolved.
C8_Witness ==
    /\ tool_ret # NoCall
    /\ tool_ret.tool.exe = "ffmpeg.exe"
    /\ "ffmpeg.exe" \in tool_env.bin
    /\ tool_env.path["ffmpeg"] # None


\* Batch b of tab t has ended.
Ended(t, b) == b < nbatch[t] \/ (b = nbatch[t] /\ ~is_running[t])

\* C11: the files a batch converts are the files that were in the list when
\* Convert was pressed, in that order: the k-th "Converting" line of a batch
\* is about the k-th file of that list, and a batch that has ended without a
\* failure has converted them all.
C11_FilesAsPressed ==
    \A t \in Tabs : \A b \in 1..nbatch[t] :
        LET conv == BatchLines(t, b, "converting")
            fl == pressed[t][b].files
        IN  /\ Len(conv) <= Len(fl)
            /\ \A i \in 1..MinOf(Len(conv), Len(fl)) : conv[i].src = fl[i]
            /\ (Ended(t, b) /\ BatchLines(t, b, "failed") = <<>>) => Len(conv) = Len(fl)


\* C12: every file of a batch is converted with the options in effect when
\* Convert was pressed: the filter arguments of every command a worker has
\* built are those of that moment (music: the gain filter; video: the
\* scaling filter).
C12_OptionsAsPressed ==
    \A c \in cmds : c.opt = pressed[c.tab][c.batch].opt


\* The k-th file of the list batch b of tab t was started with has been run
\* as the k-th file of the batch and its subprocess has exited with code 0.
Succeeded(t, b, k) ==
    /\ \E c \in cmds : /\ c.tab = t
                       /\ c.batch = b
                       /\ c.k = k
                       /\ c.src = pressed[t][b].files[k]
    /\ [tab |-> t, batch |-> b, k |-> k, code |-> 0] \in exits

\* Every file of batch b of tab t (at least one) was run and exited with 0.
AllSucceeded(t, b) ==
    /\ Len(pressed[t][b].files) >= 1
    /\ \A k \in 1..Len(pressed[t][b].files) : Succeeded(t, b, k)

\* C13: "[OK] Convert complete." is logged for a batch if and only if the
\* batch has ended and every file of the batch was run and exited with code
\* 0; a batch that logged "[ERROR] Conversion failed" never logs it.
C13_OkIffAllSucceeded ==
    \A t \in Tabs : \A b \in 1..nbatch[t] :
        /\ BatchLines(t, b, "ok") # <<>> <=> (Ended(t, b) /\ AllSucceeded(t, b))
        /\ ~(BatchLines(t, b, "failed") # <<>> /\ BatchLines(t, b, "ok") # <<>>)


\* C14: once a tab has started a batch its progress bar has
\* 0 <= value <= maximum, the maximum is the number of files the batch was
\* started with, and value = maximum once the batch has ended with "[OK]
\* Convert complete.".
C14_ProgressInRange ==
    \A t \in Tabs : nbatch[t] >= 1 =>
        /\ 0 <= progress[t].value
        /\ progress[t].value <= progress[t].max
        /\ progress[t].max = Len(pressed[t][nbatch[t]].files)
        /\ (Ended(t, nbatch[t]) /\ BatchLines(t, nbatch[t], "ok") # <<>>)
               => progress[t].value = progress[t].max


\* C15: in the music tab no audio preview runs while a conversion runs: while
\* is_running is true no ffplay process is running and none is tracked.
C15_NoPreviewWhileConverting ==
    is_running["music"] => (players = {} /\ preview_proc = None)


\* The state of the audio preview the claims C16 to C18 speak of: at most one
\* ffplay process runs and it is the tracked one; the Stop button is enabled
\* exactly when a process is tracked and the Play button is disabled then;
\* stop_preview leaves no tracked process, and a second stop_preview changes
\* nothing.
OnePreview ==
    /\ Cardinality(players) <= 1
    /\ \A p \in players : p.pid = preview_proc
    /\ btn["music"].stop = (preview_proc # None)
    /\ preview_proc # None => ~btn["music"].play
    /\ LET r == StopPreviewState(preview_proc, players)
       IN  /\ r.proc = None
           /\ r.players = {}
           /\ StopPreviewState(r.proc, r.players) = r

\* C16: the music tab tracks at most one audio preview process.  OnePreview
\* holds in every state; while a process is tracked no step starts an ffplay
\* process or tracks another one (start_preview does nothing then); and the
\* Stop button leaves no tracked process.
C16_OnePreview ==
    /\ []OnePreview
    /\ [][preview_proc # None =>
              /\ nplay' = nplay
              /\ players' \subseteq players
              /\ preview_proc' \in {preview_proc, None}]_vars
    /\ [][MusicStop => (preview_proc' = None /\ players' = {})]_vars

\* C16 witness: the second preview is playing and tracked, Stop enabled and
\* Play disabled, after the first one was stopped (its poll timer is still
\* pending) and the restart timer of a gain change has run.
C16_Witness ==
    /\ preview_proc = Pid(2)
    /\ Running(players, preview_proc)
    /\ btn["music"].stop
    /\ ~btn["music"].play
    /\ poll_pending = 2
    /\ restart_pending = <<>>
    /\ volume_db # 0

\* A <<ListboxSelect>> event of the music list: _on_list_select runs.
ListSelectStep == \E s \in SUBSET (1..Len(files["music"])) : MusicListSelect(s)

\* C17: after _on_list_select the music tab tracks no preview process, the
\* Stop button is disabled, and the process that was tracked before the
\* selection changed is not running any more.
C17_SelectStopsPreview ==
    [][ListSelectStep =>
           /\ preview_proc' = None
           /\ ~btn'["music"].stop
           /\ ~Running(players', preview_proc)
           /\ nplay' = nplay]_vars

\* C17 witness: the first preview was started for a.mp3 and the selection is
\* now b.mp3 alone; nothing is tracked or running, the Stop button is
\* disabled, and the poll timer of the stopped preview has not run yet.
C17_Witness ==
    /\ nplay = 1
    /\ Len(files["music"]) = 2
    /\ \E i \in 1..Len(log_q["music"]) :
           /\ log_q["music"][i].kind = "previewing"
           /\ log_q["music"][i].src = files["music"][1]
    /\ sel["music"] = {2}
    /\ preview_proc = None
    /\ players = {}
    /\ ~btn["music"].stop
    /\ poll_pending = 1
    /\ restart_pending = <<>>
    /\ volume_db = 0

\* _on_volume_change has run: the gain is another one.
GainStep == volume_db' # volume_db

\* An after(100, self.start_preview) timer has fired.
RestartStep == Len(restart_pending') < Len(restart_pending)

\* subprocess.Popen raised in this step.
PopenRaised == nplay' = nplay + 1 /\ preview_proc' = None

\* This step started the one ffplay process there is now, for the selected
\* file and with the current gain, and tracks it.
StartedSelected ==
    /\ nplay' = nplay + 1
    /\ preview_proc' = Pid(nplay + 1)
    /\ players' = {Player(nplay + 1, SelectedPath(files["music"], sel["music"]),
                          volume_db)}

\* C18: a gain change while a preview is playing stops it and schedules one
\* restart; a gain change with no preview playing starts and schedules none;
\* and every restart timer fires 100 ms or more after its gain change and
\* starts exactly one preview, of the file selected and with the gain set at
\* that moment (unless ffplay cannot be started).
C18_RestartOnGainChange ==
    /\ [][(GainStep /\ Running(players, preview_proc)) =>
              /\ preview_proc' = None
              /\ players' = {}
              /\ nplay' = nplay
              /\ Len(restart_pending') = Len(restart_pending) + 1]_vars
    /\ [][(GainStep /\ ~Running(players, preview_proc)) =>
              UNCHANGED <<restart_pending, nplay, players>>]_vars
    /\ [][(RestartStep /\ ~PopenRaised) =>
              /\ RestartDue(Head(restart_pending))
              /\ StartedSelected]_vars

\* The file selected in the video list (curselection()[0]), None when the
\* selection is empty.
PreviewSelection ==
    IF sel["video"] = {} THEN None ELSE files["video"][Min(sel["video"])]

\* Tk runs an apply callback of _build_preview in this step.
ApplyStep ==
    /\ afterQ # <<>>
    /\ Head(afterQ).cb = "apply"
    /\ afterQ' = Tail(afterQ)

\* This step draws a thumbnail (create_image) on the preview canvas.
Drawn == ApplyStep /\ canvas'.kind = "image"

\* ffmpeg is started by a thumbnail build in this step.
BuildStarted ==
    \E b \in builds' : /\ b.pc = "run"
                       /\ \A a \in builds : a.id = b.id => a.pc # "run"

\* C19: every thumbnail drawn in the video tab was rendered from the file
\* that is selected when it is drawn.
C19_DrawnIsSelected == [][Drawn => canvas'.v = PreviewSelection]_vars

\* C20: while the scaling mode is 'custom' no thumbnail subprocess is
\* started and no thumbnail is drawn.
C20_CustomNoThumbnail ==
    /\ [][scale_mode = "custom" => ~BuildStarted]_vars
    /\ [][scale_mode = "custom" => ~Drawn]_vars

\* The normalized paths of the files of a list.
Keys(fl) == {normalize(fl[i]) : i \in 1..Len(fl)}

\* The paths a dialog of tab t can return.
Pool(t) == IF t = "music" THEN MusicPool ELSE VideoPool

\* C21: in both tabs _known_paths is the set of normalized paths of the
\* files in the list and no two files of the list have the same normalized
\* path; add_files, run in this state with a path of a listed file, or with
\* one path twice, adds nothing the list has, and adds every accepted path
\* whose file is not (or no more) in the list.
C21_KnownPaths ==
    \A t \in Tabs :
        /\ known[t] = Keys(files[t])
        /\ \A i, j \in 1..Len(files[t]) :
               normalize(files[t][i]) = normalize(files[t][j]) => i = j
        /\ \A p \in Pool(t) :
               /\ AddLoop(<<p>>, known[t], <<>>, t).picked =
                      IF Accepts(t, p) /\ normalize(p) \notin Keys(files[t])
                      THEN <<p>> ELSE <<>>
               /\ AddLoop(<<p, p>>, known[t], <<>>, t) = AddLoop(<<p>>, known[t], <<>>, t)

\* C21 witness: on Windows the music list holds b.mp3 and A.MP3, added in
\* its upper-case spelling, and the known paths are their lower-case keys
\* (a.mp3 cannot be added now, and can once A.MP3 is removed).
C21_Witness ==
    /\ os_nt
    /\ files["music"] = <<"b.mp3", "A.MP3">>
    /\ known["music"] = {"a.mp3", "b.mp3"}
    /\ sel["music"] = {1}

\* The lines of stderr up to the first that does not decode, stripped.
RECURSIVE Decoded(_)
Decoded(stderr) ==
    IF stderr = <<>> \/ Head(stderr) = "undecodable" THEN <<>>
    ELSE <<OutLine(Strip(Head(stderr)))>> \o Decoded(Tail(stderr))

\* C22: FFmpegProcess.run never raises.  When Popen succeeds and every line
\* of stderr decodes it puts all the lines, stripped and in order, and
\* returns the exit code of the subprocess; when Popen raises, or a line
\* does not decode, it returns 1 and puts exactly one error line, naming the
\* exception, after the lines read so far.
C22_RunNeverRaises ==
    run_ret.tab # None =>
        LET env == run_ret.env
            failed == env.popen # None \/ Len(Decoded(env.stderr)) < Len(env.stderr)
            exc == IF env.popen # None THEN env.popen ELSE "UnicodeDecodeError"
        IN  /\ run_ret.raised = None
            /\ ~failed => /\ run_ret.ret = env.code
                           /\ run_ret.puts = Decoded(env.stderr)
            /\ failed => /\ run_ret.ret = 1
                          /\ run_ret.puts = Decoded(env.stderr) \o <<ErrorLine(exc)>>

\* C22 witness: run has put a progress line and an empty line, then failed
\* to decode the third line, put the error line and returned 1 in the music
\* tab, the subprocess exiting with 0.
C22_Witness ==
    /\ run_ret.tab = "music"
    /\ run_ret.env.stderr = <<"frame=1\n", "\n", "undecodable">>
    /\ run_ret.env.code = 0
    /\ run_ret.ret = 1
    /\ run_ret.puts = <<OutLine("frame=1"), OutLine(""), ErrorLine("UnicodeDecodeError")>>

\* The tabs that have a conversion worker thread.
Converting == {t \in Tabs : workers[t] # <<>>}

\* C23: at any time at most one conversion worker is running in the whole
\* application: no batch of the Music tab runs together with a batch of the
\* Video tab.
C23_OneWorkerInApp ==
    /\ Cardinality(Converting) <= 1
    /\ ~(is_running["music"] /\ is_running["video"])

=============================================================================
